---- MODULE Spec2Model ----
(***************************************************************************)
(* The session state machine of the invader game: SpaceInvadersGame        *)
(* (src/unnamed/part_000) driving Player, Bullet, Enemy, UFO and           *)
(* InvaderGrid (src/src/game.ts) with the helpers of src/src/utils.ts.     *)
(*                                                                         *)
(* Units.  Timestamps are whole milliseconds.  The code's deltaTime is in  *)
(* seconds; here dt is the same duration in milliseconds and every         *)
(* "speed * deltaTime" is (speed * dt) \div 1000.  Frame timestamps are    *)
(* multiples of StepUnit (10 ms), which makes each of these quotients      *)
(* exact, so coordinates are the integers the code computes.               *)
(***************************************************************************)
EXTENDS Integers, Sequences, FiniteSets, TLC

(* ------------------------------ GAME_CONFIG ---------------------------- *)
CANVAS_WIDTH == 800
CANVAS_HEIGHT == 600
PLAYER_SPEED == 300
PLAYER_WIDTH == 40
PLAYER_HEIGHT == 20
PLAYER_LIVES == 3
BULLET_SPEED == 400
BULLET_WIDTH == 4
BULLET_HEIGHT == 12
MAX_PLAYER_BULLETS == 5
PLAYER_SHOOT_COOLDOWN == 200
ENEMY_WIDTH == 48
ENEMY_HEIGHT == 32
ENEMY_ROWS == 5
ENEMY_COLS == 9
ENEMY_SPACING_X == 64
ENEMY_SPACING_Y == 40
ENEMY_START_X == 88
ENEMY_START_Y == 80
ENEMY_MOVE_SPEED == 20
ENEMY_DROP_DISTANCE == 20
ENEMY_SHOOT_INTERVAL == 2000
SCORE_PER_ENEMY == 10
UFO_SPEED == 100
UFO_WIDTH == 50
UFO_HEIGHT == 20
UFO_SCORE == 100
UFO_SPAWN_INTERVAL == 15000
UFO_Y_POSITION == 30

\* literals of the code that GAME_CONFIG does not name
RESPAWN_DELAY == 1000
PLAYER_BOTTOM_MARGIN == 20
EDGE_MARGIN == 10
LATERAL_STEP == 10
MS_PER_SECOND == 1000

\* GameState
TITLE == "title"
PLAYING == "playing"
GAME_OVER == "game_over"

(* ------------------------------- utils.ts ------------------------------ *)
Min2(a, b) == IF a <= b THEN a ELSE b
Max2(a, b) == IF a >= b THEN a ELSE b

Rect(x, y, w, h) == [x |-> x, y |-> y, width |-> w, height |-> h]

checkCollision(rect1, rect2) ==
    /\ rect1.x < rect2.x + rect2.width
    /\ rect1.x + rect1.width > rect2.x
    /\ rect1.y < rect2.y + rect2.height
    /\ rect1.y + rect1.height > rect2.y

\* variant: clamp without the upper limit
clampBelow(value, lo, hi) == Max2(lo, value)

clamp(value, lo, hi) == Max2(lo, Min2(hi, value))

\* removeInPlace(array, predicate): the kept elements, in order; predicate
\* is given as the function from the array's items to its answers
removeInPlace(array, predicate) ==
    SelectSeq(array, LAMBDA item : ~predicate[item])

\* Array.prototype.splice(i, 1) at the 1-based position i
Splice(array, i) == SubSeq(array, 1, i - 1) \o SubSeq(array, i + 1, Len(array))

\* speed * deltaTime, deltaTime given in milliseconds
Travel(speed, dt) == (speed * dt) \div MS_PER_SECOND

(* -------------------------------- Bullet ------------------------------- *)
Bullet(x, y, speed, isPlayerBullet) ==
    [x |-> x, y |-> y, speed |-> speed, isPlayerBullet |-> isPlayerBullet]

BulletUpdate(b, dt) == [b EXCEPT !.y = @ + Travel(b.speed, dt)]

BulletIsOutOfBounds(b) == b.y < -BULLET_HEIGHT \/ b.y > CANVAS_HEIGHT

BulletRect(b) == Rect(b.x, b.y, BULLET_WIDTH, BULLET_HEIGHT)

(* -------------------------------- Player ------------------------------- *)
PlayerStartX == (CANVAS_WIDTH - PLAYER_WIDTH) \div 2
PlayerStartY == CANVAS_HEIGHT - PLAYER_HEIGHT - PLAYER_BOTTOM_MARGIN

NewPlayer ==
    [x |-> PlayerStartX, y |-> PlayerStartY, lives |-> PLAYER_LIVES,
     lastShootTime |-> 0]

PlayerUpdate(p, dt, moveLeft, moveRight) ==
    LET x1 == IF moveLeft THEN p.x - Travel(PLAYER_SPEED, dt) ELSE p.x
        x2 == IF moveRight THEN x1 + Travel(PLAYER_SPEED, dt) ELSE x1
    IN  [p EXCEPT !.x = clamp(x2, 0, CANVAS_WIDTH - PLAYER_WIDTH)]

PlayerCanShoot(p, currentTime) ==
    currentTime - p.lastShootTime >= PLAYER_SHOOT_COOLDOWN

\* variant: shoot() does not record the time of the shot
PlayerShootNoStamp(p, currentTime) ==
    IF ~PlayerCanShoot(p, currentTime)
    THEN [player |-> p, bullets |-> << >>]
    ELSE [player |-> p,
          bullets |-> << Bullet(p.x + PLAYER_WIDTH \div 2 - BULLET_WIDTH \div 2,
                                p.y - BULLET_HEIGHT, -BULLET_SPEED, TRUE) >>]

\* shoot(): the player after the call, and the bullets returned (none for null)
PlayerShoot(p, currentTime) ==
    IF ~PlayerCanShoot(p, currentTime)
    THEN [player |-> p, bullets |-> << >>]
    ELSE [player |-> [p EXCEPT !.lastShootTime = currentTime],
          bullets |-> << Bullet(p.x + PLAYER_WIDTH \div 2 - BULLET_WIDTH \div 2,
                                p.y - BULLET_HEIGHT, -BULLET_SPEED, TRUE) >>]

PlayerHit(p) == [p EXCEPT !.lives = @ - 1]

PlayerRect(p) == Rect(p.x, p.y, PLAYER_WIDTH, PLAYER_HEIGHT)

PlayerResetPosition(p) ==
    [p EXCEPT !.x = PlayerStartX, !.y = PlayerStartY, !.lastShootTime = 0]

PlayerReset(p) == [PlayerResetPosition(p) EXCEPT !.lives = PLAYER_LIVES]

(* --------------------------------- Enemy ------------------------------- *)
Enemy(x, y, row, col) ==
    [x |-> x, y |-> y, isAlive |-> TRUE, row |-> row, col |-> col]

EnemyShoot(e) ==
    Bullet(e.x + ENEMY_WIDTH \div 2 - BULLET_WIDTH \div 2, e.y + ENEMY_HEIGHT,
           BULLET_SPEED, FALSE)

EnemyDestroy(e) == [e EXCEPT !.isAlive = FALSE]

EnemyRect(e) == Rect(e.x, e.y, ENEMY_WIDTH, ENEMY_HEIGHT)

(* ---------------------------------- UFO -------------------------------- *)
\* new UFO(): direction is the outcome of Math.random() < 0.5
NewUFO(direction) ==
    [x |-> IF direction = 1 THEN -UFO_WIDTH ELSE CANVAS_WIDTH,
     y |-> UFO_Y_POSITION, isActive |-> TRUE, direction |-> direction]

UFOUpdate(u, dt) ==
    IF ~u.isActive THEN u
    ELSE LET x1 == u.x + Travel(UFO_SPEED * u.direction, dt)
         IN  [u EXCEPT !.x = x1,
                       !.isActive =
                           ~ \/ (u.direction = 1 /\ x1 > CANVAS_WIDTH)
                             \/ (u.direction = -1 /\ x1 < -UFO_WIDTH)]

\* variant: destroy() leaves the craft active
UFODestroyKeeps(u) == u

UFODestroy(u) == [u EXCEPT !.isActive = FALSE]

UFORect(u) == Rect(u.x, u.y, UFO_WIDTH, UFO_HEIGHT)

(* ------------------------------ InvaderGrid ---------------------------- *)
EnemyCount == ENEMY_ROWS * ENEMY_COLS

\* createEnemies(): row-major; position i (1-based) holds row (i-1) \div COLS
CreateEnemies(baseY) ==
    [i \in 1..EnemyCount |->
        LET row == (i - 1) \div ENEMY_COLS
            col == (i - 1) % ENEMY_COLS
        IN  Enemy(ENEMY_START_X + col * ENEMY_SPACING_X,
                  baseY + row * ENEMY_SPACING_Y, row, col)]

NewInvaderGrid ==
    [enemies |-> CreateEnemies(ENEMY_START_Y), moveDirection |-> 1,
     lastMoveTime |-> 0, lastShootTime |-> 0, baseY |-> ENEMY_START_Y,
     previousSpeedStage |-> 1]

\* this.enemies.filter(enemy => enemy.isAlive), as positions in array order
AliveIdx(g) == {i \in 1..EnemyCount : g.enemies[i].isAlive}

SetMax(S) == CHOOSE m \in S : \A v \in S : v <= m
SetMin(S) == CHOOSE m \in S : \A v \in S : m <= v

\* lowestY - baseY of the living enemies (callers guard the empty case)
DescentDistance(g) == SetMax({g.enemies[i].y : i \in AliveIdx(g)}) - g.baseY

\* speedStages: threshold and multiplier, the multiplier in tenths
SpeedStages == << [threshold |-> 0,   multiplier10 |-> 10],
                  [threshold |-> 100, multiplier10 |-> 15],
                  [threshold |-> 200, multiplier10 |-> 22],
                  [threshold |-> 300, multiplier10 |-> 30] >>

\* variant: a stage is taken only when d is beyond its threshold
RECURSIVE StageScanBeyond(_, _, _)
StageScanBeyond(d, k, current) ==
    IF k > Len(SpeedStages) THEN current
    ELSE IF d > SpeedStages[k].threshold
         THEN StageScanBeyond(d, k + 1, SpeedStages[k].multiplier10)
         ELSE current

\* the loop over speedStages: take each multiplier until a threshold exceeds d
RECURSIVE StageScan(_, _, _)
StageScan(d, k, current) ==
    IF k > Len(SpeedStages) THEN current
    ELSE IF d >= SpeedStages[k].threshold
         THEN StageScan(d, k + 1, SpeedStages[k].multiplier10)
         ELSE current

\* currentMultiplier * 10 for descent distance d
Multiplier10(d) == StageScan(d, 1, SpeedStages[1].multiplier10)

\* getCurrentMoveSpeed(): ENEMY_MOVE_SPEED * multiplier (20, 30, 44 or 60)
GetCurrentMoveSpeed(g) ==
    IF AliveIdx(g) = {} THEN ENEMY_MOVE_SPEED
    ELSE (ENEMY_MOVE_SPEED * Multiplier10(DescentDistance(g))) \div 10

StageOf(d) ==
    IF d >= 300 THEN 4 ELSE IF d >= 200 THEN 3 ELSE IF d >= 100 THEN 2 ELSE 1

GetCurrentSpeedStage(g) ==
    IF AliveIdx(g) = {} THEN 1 ELSE StageOf(DescentDistance(g))

\* variant: a dropping enemy also steps sideways
MoveEnemyDiagonal(e, shouldDrop, dir) ==
    IF shouldDrop
    THEN [e EXCEPT !.y = @ + ENEMY_DROP_DISTANCE, !.x = @ + dir * LATERAL_STEP]
    ELSE [e EXCEPT !.x = @ + dir * LATERAL_STEP]

\* move(), lines 592-597, for one enemy
MoveEnemy(e, shouldDrop, dir) ==
    IF shouldDrop THEN [e EXCEPT !.y = @ + ENEMY_DROP_DISTANCE]
    ELSE [e EXCEPT !.x = @ + dir * LATERAL_STEP]

\* for (const enemy of aliveEnemies), from array position i on
RECURSIVE MoveFrom(_, _, _, _)
MoveFrom(enemies, i, shouldDrop, dir) ==
    IF i > EnemyCount THEN enemies
    ELSE MoveFrom(IF enemies[i].isAlive
                  THEN [enemies EXCEPT ![i] = MoveEnemy(@, shouldDrop, dir)]
                  ELSE enemies, i + 1, shouldDrop, dir)

\* move(), lines 584-598: the living enemies drop, or step sideways by dir
MoveEnemies(g, shouldDrop, dir) ==
    [g EXCEPT !.moveDirection = dir,
              !.enemies = MoveFrom(@, 1, shouldDrop, dir)]

\* variant: the edge test without the left edge
MoveWithinRightOnly(g, leftmostX, rightmostX) ==
    IF g.moveDirection = 1 /\ rightmostX >= CANVAS_WIDTH - EDGE_MARGIN
    THEN MoveEnemies(g, TRUE, -1)
    ELSE MoveEnemies(g, FALSE, g.moveDirection)

\* move(), lines 583-589: the edge test on the extent of the living enemies
MoveWithin(g, leftmostX, rightmostX) ==
    IF g.moveDirection = 1 /\ rightmostX >= CANVAS_WIDTH - EDGE_MARGIN
    THEN MoveEnemies(g, TRUE, -1)
    ELSE IF g.moveDirection = -1 /\ leftmostX <= EDGE_MARGIN
    THEN MoveEnemies(g, TRUE, 1)
    ELSE MoveEnemies(g, FALSE, g.moveDirection)

\* move(): drop and flip at an edge, else one lateral step; living enemies only
GridMove(g) ==
    IF AliveIdx(g) = {} THEN g
    ELSE MoveWithin(g, SetMin({g.enemies[i].x : i \in AliveIdx(g)}),
                    SetMax({g.enemies[i].x + ENEMY_WIDTH : i \in AliveIdx(g)}))

\* the reduce over one column: prev.y > current.y ? prev : current
RECURSIVE BottomOf(_, _, _)
BottomOf(g, idxs, prev) ==
    IF idxs = << >> THEN prev
    ELSE BottomOf(g, Tail(idxs),
                  IF g.enemies[prev].y > g.enemies[Head(idxs)].y
                  THEN prev ELSE Head(idxs))

\* the living enemies of column col, in array order
ColumnEnemies(g, col) ==
    SelectSeq([i \in 1..EnemyCount |-> i],
              LAMBDA i : g.enemies[i].isAlive /\ g.enemies[i].col = col)

\* variant: the first living enemy of the column in array order
ColumnBottomFirst(g, columnEnemies) ==
    IF Len(columnEnemies) > 0 THEN << Head(columnEnemies) >> ELSE << >>

\* the lowest enemy of a column, given its living enemies; none if empty
ColumnBottom(g, columnEnemies) ==
    IF Len(columnEnemies) > 0
    THEN << BottomOf(g, Tail(columnEnemies), Head(columnEnemies)) >>
    ELSE << >>

\* getFrontLineEnemies(): per column with a living enemy, its lowest one
RECURSIVE FrontLineFrom(_, _)
FrontLineFrom(g, col) ==
    IF col >= ENEMY_COLS THEN << >>
    ELSE ColumnBottom(g, ColumnEnemies(g, col)) \o FrontLineFrom(g, col + 1)

GetFrontLineEnemies(g) == FrontLineFrom(g, 0)

\* randomShoot(), lines 612-613, on the front line found
ShootFrom(g, frontLineEnemies, rnd) ==
    IF Len(frontLineEnemies) = 0 THEN << >>
    ELSE << EnemyShoot(g.enemies[frontLineEnemies[rnd + 1]]) >>

\* randomShoot(): rnd is the value randomInt(0, length - 1) returns
RandomShoot(g, rnd) ==
    IF AliveIdx(g) = {} THEN << >>
    ELSE ShootFrom(g, GetFrontLineEnemies(g), rnd)

\* variant: the move interval of the base speed at every stage
MoveDueBase(g, currentTime, currentSpeed) ==
    (currentTime - g.lastMoveTime) * ENEMY_MOVE_SPEED >= MS_PER_SECOND

\* currentTime - lastMoveTime >= 1000 / currentSpeed
MoveDue(g, currentTime, currentSpeed) ==
    (currentTime - g.lastMoveTime) * currentSpeed >= MS_PER_SECOND

\* currentTime - lastShootTime >= ENEMY_SHOOT_INTERVAL / (currentSpeed / ENEMY_MOVE_SPEED)
ShootDue(g, currentTime, currentSpeed) ==
    (currentTime - g.lastShootTime) * currentSpeed
        >= ENEMY_SHOOT_INTERVAL * ENEMY_MOVE_SPEED

\* variant: the fire time is stamped only when a projectile was produced
GridFireOnShot(g, currentTime, currentSpeed, rnd, stageChanged) ==
    IF ShootDue(g, currentTime, currentSpeed) /\ RandomShoot(g, rnd) # << >>
    THEN [grid |-> [g EXCEPT !.lastShootTime = currentTime],
          result |-> [bullets |-> RandomShoot(g, rnd),
                      stageChanged |-> stageChanged]]
    ELSE [grid |-> g,
          result |-> [bullets |-> << >>, stageChanged |-> stageChanged]]

\* update(), lines 557-567: the fire attempt, on the grid g as moved
GridFire(g, currentTime, currentSpeed, rnd, stageChanged) ==
    IF ShootDue(g, currentTime, currentSpeed)
    THEN [grid |-> [g EXCEPT !.lastShootTime = currentTime],
          result |-> [bullets |-> RandomShoot(g, rnd),
                      stageChanged |-> stageChanged]]
    ELSE [grid |-> g,
          result |-> [bullets |-> << >>, stageChanged |-> stageChanged]]

\* update(), lines 549-555: the movement step at the current speed
GridAdvance(g, currentTime, currentSpeed, rnd, stageChanged) ==
    GridFire(IF MoveDue(g, currentTime, currentSpeed)
             THEN [GridMove(g) EXCEPT !.lastMoveTime = currentTime] ELSE g,
             currentTime, currentSpeed, rnd, stageChanged)

\* variant: the stage check does not remember the stage it found
GridStageForgets(g, currentTime, rnd, currentStage) ==
    GridAdvance(g, currentTime, GetCurrentMoveSpeed(g), rnd,
                currentStage # g.previousSpeedStage)

\* update(), lines 541-546: the stage check
GridStage(g, currentTime, rnd, currentStage) ==
    GridAdvance(IF currentStage # g.previousSpeedStage
                THEN [g EXCEPT !.previousSpeedStage = currentStage] ELSE g,
                currentTime, GetCurrentMoveSpeed(g), rnd,
                currentStage # g.previousSpeedStage)

\* update(_deltaTime, currentTime): the grid after the call and the object
\* { bullets, stageChanged } it returns
GridUpdate(g, currentTime, rnd) ==
    GridStage(g, currentTime, rnd, GetCurrentSpeedStage(g))

\* the values randomInt can return in GridUpdate(g, currentTime, _)
ShooterPicks(g, currentTime) ==
    IF AliveIdx(g) # {} /\ ShootDue(g, currentTime, GetCurrentMoveSpeed(g))
    THEN 0..(Cardinality({g.enemies[i].col : i \in AliveIdx(g)}) - 1)
    ELSE {0}

\* variant: the last living enemy, in array order, whose box overlaps rect
FirstOverlappingLast(g, rect) ==
    IF \E i \in AliveIdx(g) : checkCollision(rect, EnemyRect(g.enemies[i]))
    THEN SetMax({i \in AliveIdx(g) : checkCollision(rect, EnemyRect(g.enemies[i]))})
    ELSE 0

\* the first living enemy, in array order, whose box overlaps rect (0: none)
FirstOverlapping(g, rect) ==
    IF \E i \in AliveIdx(g) : checkCollision(rect, EnemyRect(g.enemies[i]))
    THEN SetMin({i \in AliveIdx(g) : checkCollision(rect, EnemyRect(g.enemies[i]))})
    ELSE 0

\* checkBulletCollision, lines 652-654, for the enemy found at position i
DestroyAt(g, i) ==
    IF i = 0 THEN [grid |-> g, hit |-> 0]
    ELSE [grid |-> [g EXCEPT !.enemies[i] = EnemyDestroy(@)], hit |-> i]

\* checkBulletCollision(bullet): the grid after the call, and the enemy
\* returned as its array position (0 for null)
CheckBulletCollision(g, bullet) ==
    DestroyAt(g, FirstOverlapping(g, BulletRect(bullet)))

GetAliveCount(g) == Cardinality(AliveIdx(g))

\* checkPlayerCollision(playerRect): array position of the enemy, 0 for null
CheckPlayerCollision(g, playerRect) ==
    IF \E i \in AliveIdx(g) : checkCollision(EnemyRect(g.enemies[i]), playerRect)
    THEN SetMin({i \in AliveIdx(g) : checkCollision(EnemyRect(g.enemies[i]), playerRect)})
    ELSE 0

\* variant: reset() leaves the fire timestamp as it was
GridResetKeepsTimer(g) ==
    [g EXCEPT !.moveDirection = 1, !.lastMoveTime = 0,
              !.previousSpeedStage = 1, !.enemies = CreateEnemies(g.baseY)]

GridReset(g) ==
    [g EXCEPT !.moveDirection = 1, !.lastMoveTime = 0, !.lastShootTime = 0,
              !.previousSpeedStage = 1, !.enemies = CreateEnemies(g.baseY)]

(* --------------------------- SpaceInvadersGame ------------------------- *)
\* A session value s holds the fields of SpaceInvadersGame; ufo is << >> for
\* null and << u >> for a craft.
NewSession ==
    [gameState |-> TITLE, score |-> 0, wave |-> 1,
     player |-> NewPlayer, invaderGrid |-> NewInvaderGrid,
     playerBullets |-> << >>, enemyBullets |-> << >>, ufo |-> << >>,
     playerRespawnTime |-> 0, isPlayerRespawning |-> FALSE,
     lastUfoSpawnTime |-> 0]

\* The compile targets of the build.  `push(...x)` is emitted as a spread
\* call for ES2015 and later, and as push.apply(array, x) for ES5.
ES2015 == "ES2015"
ES5 == "ES5"
Targets == {ES2015, ES5}

\* this.enemyBullets.push(...newEnemyBullets), where newEnemyBullets is the
\* object { bullets, stageChanged } that InvaderGrid.update returns: the
\* object is not iterable, so the spread call throws a TypeError; apply reads
\* the object as an array-like without length and passes no argument.
SpreadPush(array, object, target) ==
    IF target = ES2015
    THEN [threw |-> TRUE, array |-> array]
    ELSE [threw |-> FALSE, array |-> array]

StartGame(s) == [s EXCEPT !.gameState = PLAYING]

\* variant: gameOver() clears the score
GameOverClears(s) == [s EXCEPT !.gameState = GAME_OVER, !.score = 0]

GameOver(s) == [s EXCEPT !.gameState = GAME_OVER]

NextWave(s) ==
    [s EXCEPT !.wave = @ + 1, !.invaderGrid = GridReset(@),
              !.playerBullets = << >>, !.enemyBullets = << >>]

\* variant: resetGame leaves the bonus craft and its spawn timer alone
ResetGameKeepsCraft(s) ==
    [s EXCEPT !.gameState = TITLE, !.score = 0, !.wave = 1,
              !.player = PlayerReset(@), !.invaderGrid = GridReset(@),
              !.playerBullets = << >>, !.enemyBullets = << >>,
              !.isPlayerRespawning = FALSE, !.playerRespawnTime = 0]

ResetGame(s) ==
    [s EXCEPT !.gameState = TITLE, !.score = 0, !.wave = 1,
              !.player = PlayerReset(@), !.invaderGrid = GridReset(@),
              !.playerBullets = << >>, !.enemyBullets = << >>, !.ufo = << >>,
              !.isPlayerRespawning = FALSE, !.playerRespawnTime = 0,
              !.lastUfoSpawnTime = 0]

UpdateTitle(s, enter) == IF enter THEN StartGame(s) ELSE s

\* variant: confirm on the game-over screen starts a game at once
UpdateGameOverStarts(s, enter) == IF enter THEN StartGame(s) ELSE s

UpdateGameOver(s, enter) == IF enter THEN ResetGame(s) ELSE s

\* updateBullets, lines 180-187: every projectile of the collection moves
MoveBullets(bullets, dt) ==
    [i \in 1..Len(bullets) |-> BulletUpdate(bullets[i], dt)]

\* updateBullets, lines 190-191: the projectiles out of bounds are removed
PruneBullets(bullets) ==
    removeInPlace(bullets,
                  [bullet \in {bullets[i] : i \in 1..Len(bullets)} |->
                      BulletIsOutOfBounds(bullet)])

\* updateBullets(deltaTime)
UpdateBullets(s, dt) ==
    [s EXCEPT !.playerBullets = PruneBullets(MoveBullets(@, dt)),
              !.enemyBullets = PruneBullets(MoveBullets(@, dt))]

\* updateUFO spawns a craft in this call
UfoSpawnDue(s, currentTime) ==
    s.ufo = << >> /\ currentTime - s.lastUfoSpawnTime >= UFO_SPAWN_INTERVAL

\* updateUFO, lines 205-212
UfoAdvance(s, dt) ==
    IF s.ufo = << >> THEN s
    ELSE IF UFOUpdate(s.ufo[1], dt).isActive
    THEN [s EXCEPT !.ufo = << UFOUpdate(@[1], dt) >>]
    ELSE [s EXCEPT !.ufo = << >>]

\* updateUFO(deltaTime, currentTime); direction is the new craft's, if any
UpdateUFO(s, dt, currentTime, direction) ==
    UfoAdvance(IF UfoSpawnDue(s, currentTime)
               THEN [s EXCEPT !.ufo = << NewUFO(direction) >>,
                              !.lastUfoSpawnTime = currentTime]
               ELSE s, dt)

\* startPlayerRespawn(); perfNow is the value of performance.now()
StartPlayerRespawn(s, perfNow) ==
    [s EXCEPT !.isPlayerRespawning = TRUE, !.playerRespawnTime = perfNow]

\* lines 244-260: the bonus-craft test of one pass, skipped after a swarm hit
ResolveUfo(s, i, bullet, bulletHit) ==
    IF /\ ~bulletHit
       /\ s.ufo # << >>
       /\ s.ufo[1].isActive
       /\ checkCollision(BulletRect(bullet), UFORect(s.ufo[1]))
    THEN [s EXCEPT !.playerBullets = Splice(@, i),
                   !.ufo = << UFODestroy(@[1]) >>,
                   !.score = @ + UFO_SCORE]
    ELSE s

\* variant: a projectile that hit an enemy stays in the collection
ResolveSwarmKeeps(s, i, bullet, r) ==
    ResolveUfo(IF r.hit # 0
               THEN [s EXCEPT !.invaderGrid = r.grid,
                              !.score = @ + SCORE_PER_ENEMY]
               ELSE s, i, bullet, r.hit # 0)

\* lines 230-241: the swarm test of one pass; r is checkBulletCollision's answer
ResolveSwarm(s, i, bullet, r) ==
    ResolveUfo(IF r.hit # 0
               THEN [s EXCEPT !.invaderGrid = r.grid,
                              !.playerBullets = Splice(@, i),
                              !.score = @ + SCORE_PER_ENEMY]
               ELSE s, i, bullet, r.hit # 0)

\* one pass of the loop over playerBullets, at the 1-based position i
ResolvePlayerBullet(s, i) ==
    ResolveSwarm(s, i, s.playerBullets[i],
                 CheckBulletCollision(s.invaderGrid, s.playerBullets[i]))

\* for (let i = playerBullets.length - 1; i >= 0; i--)
RECURSIVE PlayerBulletLoop(_, _)
PlayerBulletLoop(s, i) ==
    IF i < 1 THEN s ELSE PlayerBulletLoop(ResolvePlayerBullet(s, i), i - 1)

\* variant: the loop over enemyBullets goes on after a hit
ResolveEnemyBulletNoBreak(s, i, perfNow) ==
    IF checkCollision(BulletRect(s.enemyBullets[i]), PlayerRect(s.player))
    THEN [session |-> StartPlayerRespawn(
                          [s EXCEPT !.enemyBullets = Splice(@, i),
                                    !.player = PlayerHit(@)], perfNow),
          break |-> FALSE]
    ELSE [session |-> s, break |-> FALSE]

\* one pass of the loop over enemyBullets: the session, and whether it breaks
ResolveEnemyBullet(s, i, perfNow) ==
    IF checkCollision(BulletRect(s.enemyBullets[i]), PlayerRect(s.player))
    THEN [session |-> StartPlayerRespawn(
                          [s EXCEPT !.enemyBullets = Splice(@, i),
                                    !.player = PlayerHit(@)], perfNow),
          break |-> TRUE]
    ELSE [session |-> s, break |-> FALSE]

\* the pass at position i done: stop on break, else go on below i
RECURSIVE EnemyBulletLoop(_, _, _)
\* variant: the loop goes on below i whether the pass broke or not
EnemyBulletNextGoesOn(r, i, perfNow) ==
    EnemyBulletLoop(r.session, i - 1, perfNow)

EnemyBulletNext(r, i, perfNow) ==
    IF r.break THEN r.session ELSE EnemyBulletLoop(r.session, i - 1, perfNow)

\* for (let i = enemyBullets.length - 1; i >= 0; i--)
EnemyBulletLoop(s, i, perfNow) ==
    IF i < 1 THEN s
    ELSE EnemyBulletNext(ResolveEnemyBullet(s, i, perfNow), i, perfNow)

\* lines 263-283, on the session the first loop left
EnemyBulletPass(s, perfNow) == EnemyBulletLoop(s, Len(s.enemyBullets), perfNow)

\* checkCollisions()
CheckCollisions(s, perfNow) ==
    IF s.isPlayerRespawning THEN s
    ELSE EnemyBulletPass(PlayerBulletLoop(s, Len(s.playerBullets)), perfNow)

\* checkInvaderPlayerCollision()
CheckInvaderPlayerCollision(s) ==
    IF s.isPlayerRespawning THEN s
    ELSE IF CheckPlayerCollision(s.invaderGrid, PlayerRect(s.player)) # 0
         THEN GameOver(s)
         ELSE s

\* variant: the wave-clear test comes before the lives test
CheckGameEndConditionsWaveFirst(s) ==
    IF GetAliveCount(s.invaderGrid) = 0 THEN NextWave(s)
    ELSE IF s.player.lives <= 0 THEN GameOver(s)
    ELSE s

\* variant: the end-condition check without the wave-clear test
CheckGameEndConditionsLivesOnly(s) ==
    IF s.player.lives <= 0 THEN GameOver(s) ELSE s

\* checkGameEndConditions()
CheckGameEndConditions(s) ==
    IF s.player.lives <= 0 THEN GameOver(s)
    ELSE IF GetAliveCount(s.invaderGrid) = 0 THEN NextWave(s)
    ELSE s

\* variant: the end of the respawn keeps the enemy projectiles in flight
EndRespawnKeepsFire(s) ==
    [s EXCEPT !.isPlayerRespawning = FALSE, !.player = PlayerResetPosition(@)]

\* lines 116-118: the respawn ends
EndRespawn(s) ==
    [s EXCEPT !.isPlayerRespawning = FALSE, !.player = PlayerResetPosition(@),
              !.enemyBullets = << >>]

\* variant: the respawn ends in the first frame, whatever the time
RespawnStepNoWait(s, currentTime) ==
    IF ~s.isPlayerRespawning
    THEN [session |-> s, return |-> FALSE, resumed |-> << >>]
    ELSE [session |-> EndRespawn(s), return |-> FALSE,
          resumed |-> << EndRespawn(s) >>]

\* updatePlaying, lines 114-123: the respawn wait.  resumed holds the session
\* as the respawn left it, when it ended in this call.
RespawnStep(s, currentTime) ==
    IF ~s.isPlayerRespawning
    THEN [session |-> s, return |-> FALSE, resumed |-> << >>]
    ELSE IF currentTime - s.playerRespawnTime >= RESPAWN_DELAY
    THEN [session |-> EndRespawn(s), return |-> FALSE,
          resumed |-> << EndRespawn(s) >>]
    ELSE [session |-> s, return |-> TRUE, resumed |-> << >>]

\* variant: the fire attempt does not look at the number in flight
FireStepNoCap(s, currentTime, shoot) ==
    IF shoot
    THEN [s EXCEPT !.player = PlayerShoot(s.player, currentTime).player,
                   !.playerBullets = @ \o PlayerShoot(s.player, currentTime).bullets]
    ELSE s

\* lines 133-139: the fire attempt
FireStep(s, currentTime, shoot) ==
    IF shoot /\ Len(s.playerBullets) < MAX_PLAYER_BULLETS
    THEN [s EXCEPT !.player = PlayerShoot(s.player, currentTime).player,
                   !.playerBullets = @ \o PlayerShoot(s.player, currentTime).bullets]
    ELSE s

\* updatePlaying, lines 126-139: player movement and the fire attempt
PlayerStep(s, dt, currentTime, input) ==
    FireStep([s EXCEPT !.player = PlayerUpdate(@, dt, input.left, input.right)],
             currentTime, input.shoot)

\* line 143, with u what InvaderGrid.update did and p what the push did
GridPushed(s, u, p) ==
    [session |-> [s EXCEPT !.invaderGrid = u.grid, !.enemyBullets = p.array],
     result |-> u.result, threw |-> p.threw]

GridReturned(s, u, target) ==
    GridPushed(s, u, SpreadPush(s.enemyBullets, u.result, target))

\* updatePlaying, lines 142-143: the swarm update and the push of what it
\* returned
GridStep(s, currentTime, rnd, target) ==
    GridReturned(s, GridUpdate(s.invaderGrid, currentTime, rnd), target)

\* updatePlaying, lines 151-160: up to the end-condition check
ResolveStep(s, perfNow) == CheckInvaderPlayerCollision(CheckCollisions(s, perfNow))

FROZEN == "frozen"
THREW == "threw"
COMPLETED == "completed"
NONE == "none"
PLACED == "placed"

\* lines 157-163, from the session pre as it stands before checkCollisions
Resolved(a, c, pre, mid) ==
    [session |-> CheckGameEndConditions(mid), outcome |-> COMPLETED,
     resumed |-> a.resumed, result |-> c.result,
     pre |-> << pre >>, mid |-> << mid >>]

Resolve(a, c, pre, perfNow) == Resolved(a, c, pre, ResolveStep(pre, perfNow))

\* lines 143-154, with c what the swarm update and the push did
AfterGrid(a, c, dt, currentTime, direction, perfNow) ==
    IF c.threw
    THEN [session |-> c.session, outcome |-> THREW, resumed |-> a.resumed,
          result |-> c.result, pre |-> << >>, mid |-> << >>]
    ELSE Resolve(a, c, UpdateUFO(UpdateBullets(c.session, dt), dt,
                                 currentTime, direction), perfNow)

\* lines 119-143, with a what the respawn wait did
AfterRespawn(s, a, dt, currentTime, input, rnd, direction, perfNow, target) ==
    IF a.return
    THEN [session |-> s, outcome |-> FROZEN, resumed |-> << >>,
          result |-> [bullets |-> << >>, stageChanged |-> FALSE],
          pre |-> << >>, mid |-> << >>]
    ELSE AfterGrid(a, GridStep(PlayerStep(a.session, dt, currentTime, input),
                               currentTime, rnd, target),
                   dt, currentTime, direction, perfNow)

\* updatePlaying(deltaTime, currentTime).  The record returned holds the
\* session after the call, how the call ended (FROZEN: the early return of
\* the respawn wait; THREW: the TypeError of line 143; COMPLETED), and the
\* session as it stood before checkCollisions (pre) and before
\* checkGameEndConditions (mid).
UpdatePlaying(s, dt, currentTime, input, rnd, direction, perfNow, target) ==
    AfterRespawn(s, RespawnStep(s, currentTime), dt, currentTime, input, rnd,
                 direction, perfNow, target)

(* ------------------------------- the state ----------------------------- *)
VARIABLES
    gameState, score, wave, player, invaderGrid, playerBullets, enemyBullets,
    ufo, playerRespawnTime, isPlayerRespawning, lastUfoSpawnTime,
    lastFrameTime,   \* the fields of SpaceInvadersGame
    target,          \* the compile target of the running build
    running,         \* the frame loop is still scheduled
    plan,            \* the scripted opening: its kind and the frames it has left
    frames,          \* frames run since the scripted opening
    ev               \* what the last update call did

sessionVars == << gameState, score, wave, player, invaderGrid, playerBullets,
                  enemyBullets, ufo, playerRespawnTime, isPlayerRespawning,
                  lastUfoSpawnTime >>

vars == << gameState, score, wave, player, invaderGrid, playerBullets,
           enemyBullets, ufo, playerRespawnTime, isPlayerRespawning,
           lastUfoSpawnTime, lastFrameTime, target, running, plan, frames, ev >>

Session ==
    [gameState |-> gameState, score |-> score, wave |-> wave,
     player |-> player, invaderGrid |-> invaderGrid,
     playerBullets |-> playerBullets, enemyBullets |-> enemyBullets,
     ufo |-> ufo, playerRespawnTime |-> playerRespawnTime,
     isPlayerRespawning |-> isPlayerRespawning,
     lastUfoSpawnTime |-> lastUfoSpawnTime]

Commit(s) ==
    /\ gameState' = s.gameState
    /\ score' = s.score
    /\ wave' = s.wave
    /\ player' = s.player
    /\ invaderGrid' = s.invaderGrid
    /\ playerBullets' = s.playerBullets
    /\ enemyBullets' = s.enemyBullets
    /\ ufo' = s.ufo
    /\ playerRespawnTime' = s.playerRespawnTime
    /\ isPlayerRespawning' = s.isPlayerRespawning
    /\ lastUfoSpawnTime' = s.lastUfoSpawnTime

\* the fields of SpaceInvadersGame hold the session s
Holds(s) ==
    /\ gameState = s.gameState
    /\ score = s.score
    /\ wave = s.wave
    /\ player = s.player
    /\ invaderGrid = s.invaderGrid
    /\ playerBullets = s.playerBullets
    /\ enemyBullets = s.enemyBullets
    /\ ufo = s.ufo
    /\ playerRespawnTime = s.playerRespawnTime
    /\ isPlayerRespawning = s.isPlayerRespawning
    /\ lastUfoSpawnTime = s.lastUfoSpawnTime

(* ----------------------------- the environment ------------------------- *)
\* Every run opens with a scripted stretch of frames (none, for the FREE
\* plan): frames ScriptStep apart, confirm pressed on the title screen, then
\* either no key (IDLE) or fire pressed anew each frame while steering under
\* the swarm (PURSUE),
\* the first front-line enemy as the shooter and crafts entering from the
\* left.  After it, MaxFrames frames follow with every input, either frame
\* gap, every shooter and either craft direction.
\* every speed of GAME_CONFIG is a multiple of 100 px/s, so a frame gap that
\* is a multiple of StepUnit ms moves everything by whole pixels
StepUnit == MS_PER_SECOND \div 100
ShortStep == 5      \* a frame gap of 50 ms
LongStep == 100     \* a frame gap of 1000 ms
MaxLag == 5         \* performance.now() is at most this far past the frame time
MaxFrames == 3

\* frames of each scripted opening, the title frame included
InvadedAt == 352     \* IDLE: the swarm is one move from the player
UfoShotAt == 359     \* PURSUE: a projectile is one frame below the craft
LastEnemyAt == 366   \* PURSUE: a projectile is one frame below the last enemy

FREE == "free"
IDLE == "idle"
PURSUE == "pursue"

Plans == { [script |-> FREE, left |-> 0],
           [script |-> IDLE, left |-> InvadedAt],
           [script |-> PURSUE, left |-> UfoShotAt],
           [script |-> PURSUE, left |-> LastEnemyAt] }

Scripted == plan.left > 0

ScriptStep == ShortStep * StepUnit

Steps == IF Scripted THEN {ScriptStep}
         ELSE {ShortStep * StepUnit, LongStep * StepUnit}

NoKey == [left |-> FALSE, right |-> FALSE, shoot |-> FALSE, enter |-> FALSE]

\* fire pressed since the last frame, steering the ship's centre to the point aim
PursueAt(centre, aim) ==
    [left |-> centre > aim, right |-> centre < aim, shoot |-> TRUE,
     enter |-> FALSE]

\* aim one enemy width ahead of the last living enemy of the array
Pursue(s) ==
    IF AliveIdx(s.invaderGrid) = {} THEN NoKey
    ELSE PursueAt(s.player.x + PLAYER_WIDTH \div 2,
                  s.invaderGrid.enemies[SetMax(AliveIdx(s.invaderGrid))].x
                      + ENEMY_WIDTH \div 2
                      + ENEMY_WIDTH * s.invaderGrid.moveDirection)

ScriptInput(s, script) ==
    IF s.gameState = TITLE THEN [NoKey EXCEPT !.enter = TRUE]
    ELSE IF s.gameState = PLAYING /\ script = PURSUE THEN Pursue(s)
    ELSE NoKey

\* what InputManager answers to the queries of one frame: updateTitle and
\* updateGameOver ask isEnterPressed, updatePlaying asks the other three
Inputs ==
    IF Scripted THEN {ScriptInput(Session, plan.script)}
    ELSE IF gameState = PLAYING
    THEN [left : BOOLEAN, right : BOOLEAN, shoot : BOOLEAN, enter : {FALSE}]
    ELSE [left : {FALSE}, right : {FALSE}, shoot : {FALSE}, enter : BOOLEAN]

NoEvent ==
    [kind |-> NONE, confirm |-> FALSE, outcome |-> NONE, resumed |-> << >>,
     result |-> [bullets |-> << >>, stageChanged |-> FALSE],
     pre |-> << >>, mid |-> << >>]

\* the values randomInt can return in the frame at currentTime
Picks(currentTime) ==
    IF Scripted THEN {0} ELSE ShooterPicks(invaderGrid, currentTime)

\* the directions a craft spawned in the frame at currentTime can take
UfoDirections(currentTime) ==
    IF ~Scripted /\ UfoSpawnDue(Session, currentTime) THEN {1, -1} ELSE {1}

\* an enemy projectile hit the player in the call that returned r
HitPlayer(r) == r.outcome = COMPLETED /\ r.mid[1].isPlayerRespawning

\* performance.now() is read only by startPlayerRespawn: r is the call with
\* the clock read at the frame time, later is the call with the clock read
\* MaxLag after it
ClockReads(r, later) == IF HitPlayer(r) THEN {r, later} ELSE {r}

\* the ways updatePlaying(deltaTime, currentTime) can go in a build
Outcomes(s, dt, currentTime, input, rnd, direction, tgt) ==
    ClockReads(UpdatePlaying(s, dt, currentTime, input, rnd, direction,
                             currentTime, tgt),
               UpdatePlaying(s, dt, currentTime, input, rnd, direction,
                             currentTime + MaxLag, tgt))

\* gameLoop: deltaTime for the frame at currentTime
DeltaTime(currentTime) ==
    IF lastFrameTime = 0 THEN 0 ELSE currentTime - lastFrameTime

Init ==
    /\ Holds(NewSession)
    /\ lastFrameTime = 0
    /\ target \in Targets
    /\ running = TRUE
    /\ plan \in Plans
    /\ frames = 0
    /\ ev = NoEvent

\* a frame may run: the loop is scheduled and the frame budget is not spent
FrameDue == running /\ (Scripted \/ frames < MaxFrames)

\* one more frame has run
FrameDone ==
    /\ plan' = IF Scripted THEN [plan EXCEPT !.left = @ - 1] ELSE plan
    /\ frames' = IF Scripted THEN frames ELSE frames + 1

\* gameLoop with gameState TITLE
FrameTitle ==
    /\ FrameDue /\ gameState = TITLE
    /\ \E step \in Steps, input \in Inputs :
          /\ Commit(UpdateTitle(Session, input.enter))
          /\ lastFrameTime' = lastFrameTime + step
          /\ ev' = [NoEvent EXCEPT !.kind = TITLE, !.confirm = input.enter]
    /\ FrameDone
    /\ UNCHANGED << target, running >>

\* gameLoop with gameState PLAYING
FramePlaying ==
    /\ FrameDue /\ gameState = PLAYING
    /\ \E step \in Steps, input \in Inputs :
         LET now == lastFrameTime + step
         IN  \E rnd \in Picks(now), direction \in UfoDirections(now) :
               \E r \in Outcomes(Session, DeltaTime(now), now, input, rnd,
                                 direction, target) :
                   /\ Commit(r.session)
                   /\ lastFrameTime' = now
                   /\ running' = (r.outcome # THREW)
                   /\ ev' = [kind |-> PLAYING, confirm |-> FALSE,
                             outcome |-> r.outcome, resumed |-> r.resumed,
                             result |-> r.result, pre |-> r.pre, mid |-> r.mid]
    /\ FrameDone
    /\ UNCHANGED target

\* gameLoop with gameState GAME_OVER
FrameGameOver ==
    /\ FrameDue /\ gameState = GAME_OVER
    /\ \E step \in Steps, input \in Inputs :
          /\ Commit(UpdateGameOver(Session, input.enter))
          /\ lastFrameTime' = lastFrameTime + step
          /\ ev' = [NoEvent EXCEPT !.kind = GAME_OVER, !.confirm = input.enter]
    /\ FrameDone
    /\ UNCHANGED << target, running >>

Next == FrameTitle \/ FramePlaying \/ FrameGameOver

Spec == Init /\ [][Next]_vars

(* ------------------------------ placed objects ------------------------- *)
\* Line 143 never adds a projectile to enemyBullets (SpreadPush), so no run
\* of Spec has an enemy projectile in flight.  What the session does with
\* one is examined from sessions into which projectiles are written, as a
\* test does through the private fields, right after a scripted opening.
PlaceDue ==
    /\ running /\ ~Scripted /\ frames = 0
    /\ gameState = PLAYING /\ ev.kind = PLAYING

\* a projectile's x that puts it over the ship's centre
OverShip(p) == p.x + PLAYER_WIDTH \div 2 - BULLET_WIDTH \div 2

\* two enemy projectiles side by side, a short frame above the ship's box
EnemyFire(p) ==
    << Bullet(OverShip(p), p.y - BULLET_HEIGHT, BULLET_SPEED, FALSE),
       Bullet(OverShip(p) + 2 * BULLET_WIDTH, p.y - BULLET_HEIGHT,
              BULLET_SPEED, FALSE) >>

\* enemy fire over the ship, with the lives left as they are or down to one
PlaceEnemyFire ==
    /\ PlaceDue
    /\ \E lives \in {1, PLAYER_LIVES} :
          player' = [player EXCEPT !.lives = lives]
    /\ enemyBullets' = EnemyFire(player)
    /\ ev' = [NoEvent EXCEPT !.kind = PLACED]
    /\ UNCHANGED << gameState, score, wave, invaderGrid, playerBullets, ufo,
                    playerRespawnTime, isPlayerRespawning, lastUfoSpawnTime,
                    lastFrameTime, target, running, plan, frames >>

\* the newest player projectile moved next to the oldest one
PlaceSecondShot ==
    /\ PlaceDue
    /\ Len(playerBullets) >= 2
    /\ playerBullets' =
          [playerBullets EXCEPT ![Len(playerBullets)] =
              [playerBullets[1] EXCEPT !.x = @ + 2 * BULLET_WIDTH]]
    /\ ev' = [NoEvent EXCEPT !.kind = PLACED]
    /\ UNCHANGED << gameState, score, wave, player, invaderGrid, enemyBullets,
                    ufo, playerRespawnTime, isPlayerRespawning,
                    lastUfoSpawnTime, lastFrameTime, target, running, plan,
                    frames >>

NextPlaced == Next \/ PlaceEnemyFire \/ PlaceSecondShot

SpecPlaced == Init /\ [][NextPlaced]_vars

(* -------------------------------- properties --------------------------- *)
\* the last update call was a Playing frame that ran to its end
Completed == ev.kind = PLAYING /\ ev.outcome = COMPLETED

\* the session before checkCollisions and before checkGameEndConditions in
\* the last update call (of a completed frame)
Pre == ev.pre[1]
Mid == ev.mid[1]

Range(seq) == {seq[k] : k \in 1..Len(seq)}

\* the player projectile b overlaps a living enemy of the grid g
OverlapsEnemy(g, b) ==
    \E i \in AliveIdx(g) : checkCollision(BulletRect(b), EnemyRect(g.enemies[i]))

\* the player projectile b overlaps the active craft of the session s
OverlapsCraft(s, b) ==
    /\ s.ufo # << >>
    /\ s.ufo[1].isActive
    /\ checkCollision(BulletRect(b), UFORect(s.ufo[1]))

\* the enemies that checkCollisions killed in the last frame
Killed == {i \in AliveIdx(Pre.invaderGrid) : ~Mid.invaderGrid.enemies[i].isAlive}

\* checkCollisions deactivated the craft in the last frame
CraftDowned ==
    /\ Pre.ufo # << >> /\ Pre.ufo[1].isActive
    /\ Mid.ufo # << >> /\ ~Mid.ufo[1].isActive

\* the player projectiles that checkCollisions removed in the last frame
Removed == Range(Pre.playerBullets) \ Range(Mid.playerBullets)

\* the projectiles in flight before checkCollisions that overlapped a living
\* enemy, and those that overlapped the active craft only
OnEnemy == {b \in Range(Pre.playerBullets) : OverlapsEnemy(Pre.invaderGrid, b)}
OnCraft == {b \in Range(Pre.playerBullets) :
               ~OverlapsEnemy(Pre.invaderGrid, b) /\ OverlapsCraft(Pre, b)}

\* an enemy projectile overlapped the player's box when checkCollisions
\* reached the second loop of the last frame
EnemyFireOnPlayer ==
    \E k \in 1..Len(Pre.enemyBullets) :
        checkCollision(BulletRect(Pre.enemyBullets[k]), PlayerRect(Pre.player))

\* C1: the phase changes only Title -> Playing on a Title frame with confirm,
\* Playing -> GameOver, and GameOver -> Title on a GameOver frame with
\* confirm; a Title or GameOver frame without confirm keeps the phase, and no
\* step makes any other phase change.
C1_PhaseTransitions ==
    [][/\ gameState = TITLE =>
            gameState' = IF ev'.confirm THEN PLAYING ELSE TITLE
       /\ gameState = PLAYING => gameState' \in {PLAYING, GAME_OVER}
       /\ gameState = GAME_OVER =>
            gameState' = IF ev'.confirm THEN TITLE ELSE GAME_OVER]_vars

\* C1 witness: a game that was started and lost is back on the title screen
\* by a confirm on the game-over screen
C1_Witness ==
    gameState = TITLE /\ ev.kind = GAME_OVER /\ ev.confirm /\ plan.script = IDLE

\* C2: at the end of every update call the lives are within 0..PLAYER_LIVES
C2_LivesInRange == player.lives >= 0 /\ player.lives <= PLAYER_LIVES

\* C2 witness: an enemy projectile took the last life in a frame that had two
\* of them over the player
C2_Witness ==
    /\ Completed /\ player.lives = 0 /\ Pre.player.lives = 1
    /\ Cardinality({k \in 1..Len(Pre.enemyBullets) :
           checkCollision(BulletRect(Pre.enemyBullets[k]),
                          PlayerRect(Pre.player))}) = 2

C4_SwarmFirst ==
    (Completed /\ ~Pre.isPlayerRespawning) =>
        /\ \A b \in OnEnemy :
              \/ b \in Removed
              \/ \A i \in AliveIdx(Pre.invaderGrid) :
                    checkCollision(BulletRect(b),
                                   EnemyRect(Pre.invaderGrid.enemies[i]))
                        => i \in Killed
        /\ \A i \in Killed :
              \E b \in Removed \cap OnEnemy :
                  checkCollision(BulletRect(b),
                                 EnemyRect(Pre.invaderGrid.enemies[i]))
        /\ Cardinality(Removed \cap OnEnemy) = Cardinality(Killed)
        /\ Mid.score = Pre.score + SCORE_PER_ENEMY * Cardinality(Killed)
                         + (IF CraftDowned THEN UFO_SCORE ELSE 0)
        /\ Removed \subseteq OnEnemy \cup OnCraft
        /\ Cardinality(Removed \ OnEnemy) = (IF CraftDowned THEN 1 ELSE 0)
        /\ Len(Pre.playerBullets) - Len(Mid.playerBullets) = Cardinality(Removed)

\* C4 witness: a projectile hit an enemy among several living ones while the
\* craft was active
C4_Witness ==
    /\ Completed /\ Cardinality(Killed) = 1
    /\ Cardinality(AliveIdx(Mid.invaderGrid)) > 1
    /\ score = Pre.score + SCORE_PER_ENEMY
    /\ Mid.ufo # << >> /\ Mid.ufo[1].isActive

\* C5: a projectile that misses the swarm and overlaps the active craft is
\* removed, deactivates the craft and adds 100; of several such projectiles
\* one is removed and the others stay, and the craft scores once
C5_CraftOnce ==
    (Completed /\ ~Pre.isPlayerRespawning) =>
        /\ (OnCraft # {}) = CraftDowned
        /\ OnCraft # {} =>
             /\ Cardinality(OnCraft \cap Removed) = 1
             /\ Mid.score = Pre.score + UFO_SCORE
                              + SCORE_PER_ENEMY * Cardinality(Killed)
        /\ OnCraft = {} =>
             Mid.score = Pre.score + SCORE_PER_ENEMY * Cardinality(Killed)

\* C5 witness: two projectiles overlapped the craft in one frame; one is
\* gone, the other is still in flight, and the score rose by 100
C5_Witness ==
    /\ Completed /\ Cardinality(OnCraft) = 2 /\ CraftDowned
    /\ Cardinality(OnCraft \cap Range(playerBullets)) = 1
    /\ score = Pre.score + UFO_SCORE

\* the swarm as reset(): direction +1, both timestamps 0, previous stage 1,
\* every enemy alive at its place of the rows x cols formation
SwarmAtStart(g) ==
    /\ g.moveDirection = 1 /\ g.lastMoveTime = 0 /\ g.lastShootTime = 0
    /\ g.previousSpeedStage = 1
    /\ DOMAIN g.enemies = 1..(ENEMY_ROWS * ENEMY_COLS)
    /\ \A row \in 0..(ENEMY_ROWS - 1), col \in 0..(ENEMY_COLS - 1) :
          g.enemies[row * ENEMY_COLS + col + 1] =
              [x |-> ENEMY_START_X + col * ENEMY_SPACING_X,
               y |-> ENEMY_START_Y + row * ENEMY_SPACING_Y,
               isAlive |-> TRUE, row |-> row, col |-> col]

\* the step is a Playing frame that makes the wave-clear transition
WaveCleared ==
    /\ ev'.kind = PLAYING
    /\ wave' = wave + 1
    /\ SwarmAtStart(invaderGrid')

\* the count of living enemies, and the lives, at the end-condition check of
\* the Playing frame the step runs (the check is reached: the frame completed)
CheckFindsNoEnemy ==
    ev'.outcome = COMPLETED /\ GetAliveCount(ev'.mid[1].invaderGrid) = 0

CheckFindsLives ==
    ev'.outcome = COMPLETED /\ ev'.mid[1].player.lives > 0

C7_WaveAdvance ==
    (Completed /\ wave # Mid.wave) =>
        /\ wave = Mid.wave + 1
        /\ SwarmAtStart(invaderGrid)
        /\ invaderGrid.baseY = ENEMY_START_Y
        /\ playerBullets = << >>
        /\ enemyBullets = << >>
        /\ player = Mid.player
        /\ score = Mid.score
        /\ gameState = Mid.gameState
        /\ ufo = Mid.ufo /\ lastUfoSpawnTime = Mid.lastUfoSpawnTime

\* C7 witness: the wave advanced from a swarm that had moved, descended and
\* fired, with player projectiles in flight and a score above 0
C7_Witness ==
    /\ Completed /\ wave = Mid.wave + 1
    /\ Mid.invaderGrid.lastShootTime > 0 /\ Mid.invaderGrid.previousSpeedStage > 1
    /\ Mid.playerBullets # << >> /\ score > 0
    /\ player.x # PlayerStartX

\* C8: after the restart from the game-over screen the session equals a
\* freshly constructed one, and so does it, but for the phase, whenever a
\* confirm on the title screen enters Playing
C8_RestartIsFresh ==
    /\ (ev.kind = GAME_OVER /\ ev.confirm) =>
          /\ Session = NewSession
          /\ score = 0 /\ wave = 1 /\ gameState = TITLE
          /\ player = [x |-> (CANVAS_WIDTH - PLAYER_WIDTH) \div 2,
                       y |-> CANVAS_HEIGHT - PLAYER_HEIGHT - PLAYER_BOTTOM_MARGIN,
                       lives |-> PLAYER_LIVES, lastShootTime |-> 0]
          /\ SwarmAtStart(invaderGrid)
          /\ playerBullets = << >> /\ enemyBullets = << >> /\ ufo = << >>
          /\ ~isPlayerRespawning /\ playerRespawnTime = 0
          /\ lastUfoSpawnTime = 0
    /\ (ev.kind = TITLE /\ ev.confirm) =>
          Session = [NewSession EXCEPT !.gameState = PLAYING]

\* C8 witness: a session that had scored and was lost to a projectile on the
\* last life, the respawning flag and time set, was restarted and entered
\* Playing again
C8_Witness ==
    /\ gameState = PLAYING /\ ev.kind = TITLE /\ ev.confirm
    /\ plan.script = PURSUE /\ frames = MaxFrames

\* C9: a Playing frame that finds the session respawning less than 1000 ms
\* after the recorded hit time changes no field of the session
C9_FrozenWhileRespawning ==
    [][(/\ gameState = PLAYING /\ isPlayerRespawning
        /\ ev'.kind = PLAYING
        /\ lastFrameTime' - playerRespawnTime < RESPAWN_DELAY)
       => UNCHANGED sessionVars]_vars

\* C9 witness: a frame returned from the respawn wait with projectiles of
\* both sides in flight
C9_Witness ==
    /\ ev.kind = PLAYING /\ ev.outcome = FROZEN
    /\ isPlayerRespawning /\ gameState = PLAYING
    /\ enemyBullets # << >> /\ playerBullets # << >>

\* C10: a Playing frame that finds the session respawning at least 1000 ms
\* after the recorded hit time ends the respawn: the flag falls, the player
\* is back at the start position with fire timer 0, the enemy projectiles
\* are gone, nothing else is changed by the respawn, and the frame runs the
\* normal updates from there (the swarm, due for a move, moves)
C10_RespawnEnds ==
    [][(/\ gameState = PLAYING /\ isPlayerRespawning
        /\ ev'.kind = PLAYING
        /\ lastFrameTime' - playerRespawnTime >= RESPAWN_DELAY)
       => /\ ev'.resumed =
               << [Session EXCEPT !.isPlayerRespawning = FALSE,
                                  !.player.x = PlayerStartX,
                                  !.player.y = PlayerStartY,
                                  !.player.lastShootTime = 0,
                                  !.enemyBullets = << >>] >>
          /\ ev'.outcome = COMPLETED
          /\ invaderGrid'.lastMoveTime = lastFrameTime'
          /\ invaderGrid'.enemies # invaderGrid.enemies
          /\ enemyBullets' = << >>]_vars

\* C10 witness: a respawn ended in a frame that ran to its end, one life
\* down
C10_Witness ==
    /\ ev.kind = PLAYING /\ ev.resumed # << >>
    /\ ev.outcome = COMPLETED
    /\ player.lives = PLAYER_LIVES - 1

\* the positions of Pre.enemyBullets, and of Mid.enemyBullets, whose
\* projectile overlaps the player's box
FireOnPlayerBefore ==
    {k \in 1..Len(Pre.enemyBullets) :
        checkCollision(BulletRect(Pre.enemyBullets[k]), PlayerRect(Pre.player))}

FireOnPlayerAfter ==
    {k \in 1..Len(Mid.enemyBullets) :
        checkCollision(BulletRect(Mid.enemyBullets[k]), PlayerRect(Mid.player))}

\* C11: the collision pass of a frame registers at most one enemy hit: with
\* enemy projectiles over the player exactly one of them leaves the
\* collection, the lives fall by one and the session is respawning, the
\* other projectiles staying where they were; with none over the player the
\* collection, the lives and the flag are as before
C11_OneHitPerFrame ==
    (Completed /\ ~Pre.isPlayerRespawning) =>
        IF FireOnPlayerBefore # {}
        THEN /\ \E k \in FireOnPlayerBefore :
                   Mid.enemyBullets = Splice(Pre.enemyBullets, k)
             /\ Cardinality(FireOnPlayerAfter)
                   = Cardinality(FireOnPlayerBefore) - 1
             /\ Mid.player = [Pre.player EXCEPT !.lives = @ - 1]
             /\ Mid.isPlayerRespawning
        ELSE /\ Mid.enemyBullets = Pre.enemyBullets
             /\ Mid.player = Pre.player
             /\ ~Mid.isPlayerRespawning

\* C11 witness: two projectiles were over a player with all lives; one is
\* gone, the other still overlaps the box, one life is lost and the session
\* plays on, respawning
C11_Witness ==
    /\ Completed /\ Pre.player.lives = PLAYER_LIVES
    /\ Cardinality(FireOnPlayerBefore) = 2
    /\ Cardinality(FireOnPlayerAfter) = 1
    /\ enemyBullets = Mid.enemyBullets
    /\ player.lives = PLAYER_LIVES - 1
    /\ isPlayerRespawning /\ gameState = PLAYING

\* some living enemy's box overlaps the player's box at the contact check
\* of the last frame (the check changes neither the swarm nor the player)
ContactAtCheck ==
    CheckPlayerCollision(Mid.invaderGrid, PlayerRect(Mid.player)) # 0

C13_SwarmFireCollected ==
    [][(gameState = PLAYING /\ ~isPlayerRespawning /\ ev'.kind = PLAYING)
       => /\ ev'.outcome = COMPLETED
          /\ \A k \in 1..Len(ev'.result.bullets) :
                \/ BulletIsOutOfBounds(
                       BulletUpdate(ev'.result.bullets[k],
                                    DeltaTime(lastFrameTime')))
                \/ BulletUpdate(ev'.result.bullets[k],
                                DeltaTime(lastFrameTime'))
                       \in Range(ev'.pre[1].enemyBullets)]_vars

(* ------------------------------ direct calls --------------------------- *)
\* The methods of Player called one at a time on a fresh session's player,
\* as a unit test calls them: ev holds the call, the player it was made on
\* and its arguments.
UPDATE_CALL == "Player.update"
RESET_POSITION_CALL == "Player.resetPosition"

\* the deltaTime values of the calls, in ms: a repeated frame time, a short
\* and a long frame gap
CallDts == {0, ShortStep * StepUnit, LongStep * StepUnit}

InitCalls ==
    /\ Holds(NewSession)
    /\ lastFrameTime = 0
    /\ target = ES5
    /\ running = FALSE
    /\ plan = [script |-> FREE, left |-> 0]
    /\ frames = 0
    /\ ev = NoEvent

\* player.update(deltaTime, moveLeft, moveRight)
CallPlayerUpdate ==
    /\ \E dt \in CallDts, moveLeft \in BOOLEAN, moveRight \in BOOLEAN :
          /\ player' = PlayerUpdate(player, dt, moveLeft, moveRight)
          /\ ev' = [kind |-> UPDATE_CALL, before |-> player, dt |-> dt,
                    left |-> moveLeft, right |-> moveRight]
    /\ UNCHANGED << gameState, score, wave, invaderGrid, playerBullets,
                    enemyBullets, ufo, playerRespawnTime, isPlayerRespawning,
                    lastUfoSpawnTime, lastFrameTime, target, running, plan,
                    frames >>

\* player.resetPosition()
CallPlayerResetPosition ==
    /\ player' = PlayerResetPosition(player)
    /\ ev' = [kind |-> RESET_POSITION_CALL, before |-> player, dt |-> 0,
              left |-> FALSE, right |-> FALSE]
    /\ UNCHANGED << gameState, score, wave, invaderGrid, playerBullets,
                    enemyBullets, ufo, playerRespawnTime, isPlayerRespawning,
                    lastUfoSpawnTime, lastFrameTime, target, running, plan,
                    frames >>

NextMove == CallPlayerUpdate \/ CallPlayerResetPosition

SpecMove == InitCalls /\ [][NextMove]_vars

\* the x the last Player.update call computed before clamping it
UnclampedX ==
    ev.before.x
      - (IF ev.left THEN Travel(PLAYER_SPEED, ev.dt) ELSE 0)
      + (IF ev.right THEN Travel(PLAYER_SPEED, ev.dt) ELSE 0)

\* C14: the player's box is horizontally inside the playfield in every
\* state, and Player.update leaves x at the nearest point of
\* [0, CANVAS_WIDTH - PLAYER_WIDTH] to the x it computed, for every
\* deltaTime and every combination of moveLeft and moveRight
C14_PlayerInside ==
    /\ player.x >= 0
    /\ player.x <= CANVAS_WIDTH - PLAYER_WIDTH
    /\ ev.kind = UPDATE_CALL =>
          /\ UnclampedX < 0 => player.x = 0
          /\ UnclampedX > CANVAS_WIDTH - PLAYER_WIDTH
                => player.x = CANVAS_WIDTH - PLAYER_WIDTH
          /\ (UnclampedX >= 0 /\ UnclampedX <= CANVAS_WIDTH - PLAYER_WIDTH)
                => player.x = UnclampedX

\* C14 witness: a move to the left that would have left the playfield
\* ended at x = 0
C14_Witness ==
    /\ ev.kind = UPDATE_CALL /\ ev.left /\ ~ev.right
    /\ ev.before.x > 0 /\ UnclampedX < 0 /\ player.x = 0

SHOOT_CALL == "Player.shoot"

\* the calls of shoot are made up to this time, in units of StepUnit ms
MaxClock == 60

\* the time from one call of shoot to the next, in ms: none, a short frame,
\* just less than the cooldown, the cooldown
ShootGaps == {0, ShortStep * StepUnit, PLAYER_SHOOT_COOLDOWN - StepUnit,
              PLAYER_SHOOT_COOLDOWN}

\* player.shoot(currentTime); lastFrameTime is the time of the last call
CallPlayerShoot ==
    /\ \E gap \in ShootGaps :
          /\ lastFrameTime + gap <= MaxClock * StepUnit
          /\ \E r \in {PlayerShoot(player, lastFrameTime + gap)} :
                /\ player' = r.player
                /\ ev' = [kind |-> SHOOT_CALL, before |-> player,
                          time |-> lastFrameTime + gap, bullets |-> r.bullets]
          /\ lastFrameTime' = lastFrameTime + gap
    /\ UNCHANGED << gameState, score, wave, invaderGrid, playerBullets,
                    enemyBullets, ufo, playerRespawnTime, isPlayerRespawning,
                    lastUfoSpawnTime, target, running, plan, frames >>

NextShoot == CallPlayerShoot \/ CallPlayerResetPosition

SpecShoot == InitCalls /\ [][NextShoot]_vars

\* the step is a call of shoot that follows a call of shoot by less than
\* the cooldown
SecondShootCall ==
    /\ ev.kind = SHOOT_CALL /\ ev'.kind = SHOOT_CALL
    /\ ev'.time - ev.time < PLAYER_SHOOT_COOLDOWN

\* C15, as the specification states it: of two calls of shoot less than the
\* cooldown apart exactly one returns a projectile
C15_ExactlyOneShot ==
    [][SecondShootCall => ((ev.bullets = << >>) # (ev'.bullets = << >>))]_vars

\* C15, amended: of two calls of shoot less than the cooldown apart at most
\* one returns a projectile, and one does exactly when the second call is
\* made at least the cooldown after the last-shot time the first call found
C15_AtMostOneShot ==
    [][SecondShootCall =>
          /\ ev.bullets = << >> \/ ev'.bullets = << >>
          /\ (ev.bullets # << >> \/ ev'.bullets # << >>)
                <=> (ev'.time - ev.before.lastShootTime
                        >= PLAYER_SHOOT_COOLDOWN)]_vars

\* C15 witness: a call of shoot made a short frame after a shot returned
\* null
C15_Witness ==
    /\ ev.kind = SHOOT_CALL /\ ev.bullets = << >>
    /\ ev.before.lastShootTime >= PLAYER_SHOOT_COOLDOWN
    /\ ev.time - ev.before.lastShootTime = ShortStep * StepUnit

\* the session on which the frame the step runs makes its player update and
\* fire attempt: the one the respawn left, if a respawn ended in the frame
FrameStart == IF ev'.resumed = << >> THEN Session ELSE ev'.resumed[1]

\* C16: no more than MAX_PLAYER_BULLETS player projectiles are in flight,
\* during and after every Playing frame; a frame that makes its fire
\* attempt with that many in flight leaves the player's last-shot time as it
\* was and adds no projectile (the collision pass finds the old ones, moved
\* and pruned)
C16_ProjectileCap ==
    [][(gameState = PLAYING /\ ev'.kind = PLAYING) =>
          /\ Len(playerBullets') <= MAX_PLAYER_BULLETS
          /\ ev'.outcome = COMPLETED =>
                /\ Len(ev'.pre[1].playerBullets) <= MAX_PLAYER_BULLETS
                /\ Len(FrameStart.playerBullets) = MAX_PLAYER_BULLETS =>
                      /\ ev'.pre[1].player.lastShootTime
                             = FrameStart.player.lastShootTime
                      /\ ev'.pre[1].playerBullets
                             = PruneBullets(MoveBullets(
                                   FrameStart.playerBullets,
                                   DeltaTime(lastFrameTime')))]_vars

\* C16 witness: a frame of the pursuit, fire pressed and the cooldown over,
\* ran with MAX_PLAYER_BULLETS projectiles in flight and fired none
C16_Witness ==
    /\ Completed /\ plan.script = PURSUE /\ frames = 0
    /\ wave = 1 /\ AliveIdx(invaderGrid) # {}
    /\ Len(Pre.playerBullets) = MAX_PLAYER_BULLETS
    /\ lastFrameTime - Pre.player.lastShootTime >= PLAYER_SHOOT_COOLDOWN

\* the swarm as InvaderGrid.update left it in the frame the step runs: the
\* collision pass finds it so, and a frame that throws at line 143 ends
\* with it
SwarmUpdated ==
    IF ev'.outcome = COMPLETED THEN ev'.pre[1].invaderGrid ELSE invaderGrid'

\* the x extent of the living enemies of g (callers guard the empty case)
LeftmostX(g) == SetMin({g.enemies[i].x : i \in AliveIdx(g)})
RightmostX(g) == SetMax({g.enemies[i].x + ENEMY_WIDTH : i \in AliveIdx(g)})

\* the living enemies of g are within EDGE_MARGIN of the edge g moves towards
AtEdge(g) ==
    \/ g.moveDirection = 1 /\ RightmostX(g) >= CANVAS_WIDTH - EDGE_MARGIN
    \/ g.moveDirection = -1 /\ LeftmostX(g) <= EDGE_MARGIN

\* from g to h the direction flipped and every living enemy went down by
\* ENEMY_DROP_DISTANCE, its x unchanged
DropStep(g, h) ==
    /\ h.moveDirection = -g.moveDirection
    /\ \A i \in AliveIdx(g) :
          h.enemies[i] = [g.enemies[i] EXCEPT !.y = @ + ENEMY_DROP_DISTANCE]

\* from g to h the direction stayed and every living enemy went sideways by
\* direction x LATERAL_STEP, its y unchanged
LateralStep(g, h) ==
    /\ h.moveDirection = g.moveDirection
    /\ \A i \in AliveIdx(g) :
          h.enemies[i] =
              [g.enemies[i] EXCEPT !.x = @ + g.moveDirection * LATERAL_STEP]

\* C17: the swarm update of a Playing frame either leaves every enemy and
\* the direction as they were, or makes one movement step, which is a drop
\* step when the living enemies are at the edge they move towards and a
\* lateral step otherwise; dead enemies stay where they are
C17_DropOrLateral ==
    [][(gameState = PLAYING /\ ev'.kind = PLAYING /\ ev'.outcome # FROZEN) =>
          IF SwarmUpdated.lastMoveTime = invaderGrid.lastMoveTime
             \/ AliveIdx(invaderGrid) = {}
          THEN /\ SwarmUpdated.enemies = invaderGrid.enemies
               /\ SwarmUpdated.moveDirection = invaderGrid.moveDirection
          ELSE /\ \A i \in (1..EnemyCount) \ AliveIdx(invaderGrid) :
                     SwarmUpdated.enemies[i] = invaderGrid.enemies[i]
               /\ IF AtEdge(invaderGrid)
                  THEN DropStep(invaderGrid, SwarmUpdated)
                       /\ ~LateralStep(invaderGrid, SwarmUpdated)
                  ELSE LateralStep(invaderGrid, SwarmUpdated)
                       /\ ~DropStep(invaderGrid, SwarmUpdated)]_vars

\* C17 witness: a swarm with enemies shot out of it moved in the last frame
\* and stands at the right edge heading left: the step was a drop
C17_Witness ==
    /\ Completed /\ Pre.invaderGrid.lastMoveTime = lastFrameTime
    /\ AliveIdx(Pre.invaderGrid) # {}
    /\ Cardinality(AliveIdx(Pre.invaderGrid)) < EnemyCount
    /\ Pre.invaderGrid.moveDirection = -1
    /\ RightmostX(Pre.invaderGrid) >= CANVAS_WIDTH - EDGE_MARGIN

\* InvaderGrid called directly, as a unit test calls it.  The swarm starts
\* with its upper rows alive (a test gets there by checkBulletCollision on
\* the enemies of the lower rows, or through the public enemies array) and
\* update is called once per short frame; frames counts the calls.
GRID_UPDATE_CALL == "InvaderGrid.update"

\* the calls of update made on one swarm
MaxMarch == 200

\* the grid g with the rows of index below rows alive, the others destroyed
RowsAlive(g, rows) ==
    [g EXCEPT !.enemies =
        [i \in 1..EnemyCount |->
            IF @[i].row < rows THEN @[i] ELSE EnemyDestroy(@[i])]]

InitGrid ==
    /\ \E rows \in 1..ENEMY_ROWS :
          Holds([NewSession EXCEPT
                    !.invaderGrid = RowsAlive(NewInvaderGrid, rows)])
    /\ lastFrameTime = 0
    /\ target = ES5
    /\ running = FALSE
    /\ plan = [script |-> FREE, left |-> 0]
    /\ frames = 0
    /\ ev = NoEvent

\* invaderGrid.update(deltaTime, currentTime), a short frame after the last
\* call; ev holds the grid the call was made on, its time and what it
\* returned
CallGridUpdate ==
    /\ frames < MaxMarch
    /\ \E rnd \in ShooterPicks(invaderGrid, lastFrameTime + ShortStep * StepUnit) :
          \E u \in {GridUpdate(invaderGrid,
                               lastFrameTime + ShortStep * StepUnit, rnd)} :
              /\ invaderGrid' = u.grid
              /\ ev' = [kind |-> GRID_UPDATE_CALL, before |-> invaderGrid,
                        time |-> lastFrameTime + ShortStep * StepUnit,
                        result |-> u.result]
    /\ lastFrameTime' = lastFrameTime + ShortStep * StepUnit
    /\ frames' = frames + 1
    /\ UNCHANGED << gameState, score, wave, player, playerBullets,
                    enemyBullets, ufo, playerRespawnTime, isPlayerRespawning,
                    lastUfoSpawnTime, target, running, plan >>

NextMarch == CallGridUpdate

SpecMarch == InitGrid /\ [][NextMarch]_vars

\* the multiplier, in tenths, and the stage the claim gives for descent d
ClaimedMultiplier10(d) ==
    IF d < 100 THEN 10 ELSE IF d < 200 THEN 15 ELSE IF d < 300 THEN 22 ELSE 30

ClaimedStage(d) ==
    IF d < 100 THEN 1 ELSE IF d < 200 THEN 2 ELSE IF d < 300 THEN 3 ELSE 4

\* the last call of update moved the swarm; it stamped the fire time
MovedInCall == invaderGrid.lastMoveTime = ev.time
FireStampedInCall == invaderGrid.lastShootTime = ev.time

\* C18: for the swarm's descent distance d the multiplier is 1.0 below 100,
\* 1.5 below 200, 2.2 below 300 and 3.0 from 300 on, no smaller than at any
\* lesser distance; getCurrentSpeedStage reports the stage of that
\* multiplier, and a call of update moves and fires at the intervals
\* 1000 / (ENEMY_MOVE_SPEED x multiplier) and ENEMY_SHOOT_INTERVAL /
\* multiplier of the stage of the swarm it was called on
C18_SpeedStages ==
    /\ AliveIdx(invaderGrid) # {}
    /\ LET d == DescentDistance(invaderGrid)
       IN  /\ d >= 0
           /\ Multiplier10(d) = ClaimedMultiplier10(d)
           /\ 10 * GetCurrentMoveSpeed(invaderGrid)
                  = ENEMY_MOVE_SPEED * ClaimedMultiplier10(d)
           /\ GetCurrentSpeedStage(invaderGrid) = ClaimedStage(d)
           /\ \A e \in 0..d :
                 /\ Multiplier10(e) <= Multiplier10(d)
                 /\ Multiplier10(e) = ClaimedMultiplier10(e)
                 /\ StageOf(e) = ClaimedStage(e)
    /\ ev.kind = GRID_UPDATE_CALL =>
          LET m10 == ClaimedMultiplier10(DescentDistance(ev.before))
          IN  /\ MovedInCall <=>
                    (ev.time - ev.before.lastMoveTime) * ENEMY_MOVE_SPEED * m10
                        >= 10 * MS_PER_SECOND
              /\ FireStampedInCall <=>
                    (ev.time - ev.before.lastShootTime) * m10
                        >= 10 * ENEMY_SHOOT_INTERVAL

\* C18 witness: a swarm called at descent 280 dropped to descent 300 and
\* is at the fourth stage
C18_Witness ==
    /\ ev.kind = GRID_UPDATE_CALL
    /\ DescentDistance(ev.before) = 280
    /\ DescentDistance(invaderGrid) = 300
    /\ GetCurrentSpeedStage(invaderGrid) = 4
    /\ 10 * GetCurrentMoveSpeed(invaderGrid) = ENEMY_MOVE_SPEED * 30

\* checkBulletCollision and reset called directly on a swarm that has not
\* moved; frames counts the calls of checkBulletCollision.
PROBE_CALL == "InvaderGrid.checkBulletCollision"
GRID_RESET_CALL == "InvaderGrid.reset"

\* the calls of checkBulletCollision made on one swarm
MaxProbes == 3

\* the projectiles tried: in the first column one inside the box of each row
\* and one across the gap between each row and the next (the gap, 8, is less
\* than a projectile's height, 12); one inside the last enemy of the array;
\* and three that touch no box: in the gap between two columns, against
\* the left side of the first column, and above the swarm
ProbeBullets ==
    LET ProbeX(col) == ENEMY_START_X + col * ENEMY_SPACING_X + ENEMY_WIDTH \div 2
        ProbeY(row) == ENEMY_START_Y + row * ENEMY_SPACING_Y
    IN  {Bullet(ProbeX(0), ProbeY(row) + 10, -BULLET_SPEED, TRUE) :
            row \in 0..(ENEMY_ROWS - 1)}
        \cup {Bullet(ProbeX(0), ProbeY(row) + ENEMY_HEIGHT - 2, -BULLET_SPEED, TRUE) :
            row \in 0..(ENEMY_ROWS - 2)}
        \cup {Bullet(ProbeX(ENEMY_COLS - 1), ProbeY(ENEMY_ROWS - 1) + 10,
                     -BULLET_SPEED, TRUE),
              Bullet(ENEMY_START_X + ENEMY_WIDTH + 4, ProbeY(0) + 10,
                     -BULLET_SPEED, TRUE),
              Bullet(ENEMY_START_X - BULLET_WIDTH, ProbeY(0) + 10,
                     -BULLET_SPEED, TRUE),
              Bullet(ProbeX(0), 0, -BULLET_SPEED, TRUE)}

\* invaderGrid.checkBulletCollision(bullet); ev holds the grid the call was
\* made on, the projectile and the enemy returned (0 for null)
CallCheckBulletCollision ==
    /\ frames < MaxProbes
    /\ \E bullet \in ProbeBullets :
          \E r \in {CheckBulletCollision(invaderGrid, bullet)} :
              /\ invaderGrid' = r.grid
              /\ ev' = [kind |-> PROBE_CALL, before |-> invaderGrid,
                        bullet |-> bullet, hit |-> r.hit]
    /\ frames' = frames + 1
    /\ UNCHANGED << gameState, score, wave, player, playerBullets,
                    enemyBullets, ufo, lastFrameTime, playerRespawnTime,
                    isPlayerRespawning, lastUfoSpawnTime, target, running,
                    plan >>

\* invaderGrid.reset()
CallGridReset ==
    /\ ev.kind = PROBE_CALL
    /\ invaderGrid' = GridReset(invaderGrid)
    /\ ev' = [kind |-> GRID_RESET_CALL, before |-> invaderGrid]
    /\ UNCHANGED << gameState, score, wave, player, playerBullets,
                    enemyBullets, ufo, lastFrameTime, playerRespawnTime,
                    isPlayerRespawning, lastUfoSpawnTime, target, running,
                    plan, frames >>

NextProbe == CallCheckBulletCollision \/ CallGridReset

SpecProbe == InitGrid /\ [][NextProbe]_vars

\* row-major index of an enemy
RowMajor(e) == e.row * ENEMY_COLS + e.col

\* the living enemies of g whose box overlaps the projectile's box
Overlapped(g, bullet) ==
    {i \in 1..EnemyCount :
        /\ g.enemies[i].isAlive
        /\ bullet.x < g.enemies[i].x + ENEMY_WIDTH
        /\ bullet.x + BULLET_WIDTH > g.enemies[i].x
        /\ bullet.y < g.enemies[i].y + ENEMY_HEIGHT
        /\ bullet.y + BULLET_HEIGHT > g.enemies[i].y}

\* C19: a call of checkBulletCollision returns the living overlapping enemy
\* of lowest row-major index and marks it, and nothing else, dead; with no
\* living enemy overlapping it returns null and changes nothing; and a dead
\* enemy comes back to life, and so can be returned again, only by reset
C19_FirstLivingOverlap ==
    [][ /\ ev'.kind = PROBE_CALL =>
              IF Overlapped(invaderGrid, ev'.bullet) = {}
              THEN ev'.hit = 0 /\ invaderGrid' = invaderGrid
              ELSE /\ ev'.hit \in Overlapped(invaderGrid, ev'.bullet)
                   /\ \A j \in Overlapped(invaderGrid, ev'.bullet) :
                         RowMajor(invaderGrid.enemies[ev'.hit])
                             <= RowMajor(invaderGrid.enemies[j])
                   /\ invaderGrid' =
                         [invaderGrid EXCEPT !.enemies[ev'.hit].isAlive = FALSE]
        /\ \A i \in 1..EnemyCount :
              (~invaderGrid.enemies[i].isAlive /\ invaderGrid'.enemies[i].isAlive)
                  => ev'.kind = GRID_RESET_CALL ]_vars

\* C19 witness: after an earlier kill, a projectile over two living enemies
\* killed the one of lower index and left the other alive
C19_Witness ==
    /\ ev.kind = PROBE_CALL
    /\ frames >= 2
    /\ Cardinality(Overlapped(ev.before, ev.bullet)) = 2
    /\ ev.hit # 0
    /\ \E j \in Overlapped(ev.before, ev.bullet) :
          j > ev.hit /\ invaderGrid.enemies[j].isAlive
    /\ ~invaderGrid.enemies[ev.hit].isAlive

\* A session left idle until the swarm has reached the player, then
\* MaxFrames free frames: the game-over screen, the title screen and the
\* first frame of the next session.
InitRestart ==
    /\ Holds(NewSession)
    /\ lastFrameTime = 0
    /\ target \in Targets
    /\ running = TRUE
    /\ plan = [script |-> IDLE, left |-> InvadedAt + 1]
    /\ frames = 0
    /\ ev = NoEvent

SpecRestart == InitRestart /\ [][Next]_vars

\* updateUFO made a new craft in the frame of this step
CraftSpawned ==
    /\ ev'.kind = PLAYING /\ ev'.outcome = COMPLETED
    /\ lastUfoSpawnTime' = lastFrameTime'
    /\ lastUfoSpawnTime' # lastUfoSpawnTime

\* the frame of this step is the first Playing frame of a session, which
\* the Title frame before it started at lastFrameTime
FirstFrameOfSession == gameState = PLAYING /\ ev.kind = TITLE /\ ev.confirm

\* C20: a craft is spawned only in a frame that begins with no craft and at
\* least UFO_SPAWN_INTERVAL after the last spawn of the session or, with no
\* spawn yet (lastUfoSpawnTime is 0 from construction and from resetGame),
\* after the start of the session, here stated for the first frame of a
\* session, where that start is the time of the frame before; and there is
\* never more than one craft
C20_CraftSpawnInterval ==
    [][ /\ Len(ufo') <= 1
        /\ CraftSpawned =>
              /\ ufo = << >>
              /\ lastUfoSpawnTime # 0 =>
                    lastFrameTime' - lastUfoSpawnTime >= UFO_SPAWN_INTERVAL
              /\ (lastUfoSpawnTime = 0 /\ FirstFrameOfSession) =>
                    lastFrameTime' - lastFrameTime >= UFO_SPAWN_INTERVAL
      ]_vars

\* UFO called directly: a new craft of either direction, then update with
\* frame gaps that binary floating point holds exactly (quarter and half
\* seconds, and the whole crossing at once), so that x is the same number
\* in the program as here; lastFrameTime is the sum of the gaps passed.
UFO_UPDATE_CALL == "UFO.update"

\* the sum of the gaps passed to one craft, in units of StepUnit
MaxFlight == 900

\* (playfield width + craft width) / speed, in milliseconds
CrossingTime == ((CANVAS_WIDTH + UFO_WIDTH) * MS_PER_SECOND) \div UFO_SPEED

CraftDts == {250, 500, CrossingTime}

InitCraft ==
    /\ \E direction \in {1, -1} :
          Holds([NewSession EXCEPT !.ufo = << NewUFO(direction) >>])
    /\ lastFrameTime = 0
    /\ target = ES5
    /\ running = FALSE
    /\ plan = [script |-> FREE, left |-> 0]
    /\ frames = 0
    /\ ev = NoEvent

\* ufo.update(deltaTime)
CallUFOUpdate ==
    /\ \E dt \in CraftDts :
          /\ lastFrameTime + dt <= MaxFlight * StepUnit
          /\ ufo' = << UFOUpdate(ufo[1], dt) >>
          /\ ev' = [kind |-> UFO_UPDATE_CALL, before |-> ufo[1], dt |-> dt]
          /\ lastFrameTime' = lastFrameTime + dt
    /\ UNCHANGED << gameState, score, wave, player, invaderGrid,
                    playerBullets, enemyBullets, playerRespawnTime,
                    isPlayerRespawning, lastUfoSpawnTime, target, running,
                    plan, frames >>

NextCraft == CallUFOUpdate

SpecCraft == InitCraft /\ [][NextCraft]_vars

\* C21: a craft whose update calls have been given gaps that sum to exactly
\* (playfield width + craft width) / speed, 8.5 s, is inactive, whichever
\* side it started from
C21_InactiveAtCrossing ==
    (ev.kind = UFO_UPDATE_CALL /\ lastFrameTime = CrossingTime)
        => ~ufo[1].isActive

\* Player.update, Bullet.update and UFO.update called directly with a frame
\* gap of either sign, on a session that holds a new player, one projectile
\* of each owner and a new craft; frames counts the calls.
BULLET_UPDATE_CALL == "Bullet.update"

\* the calls made on one session
MaxCalls == 4

SignedDts == {-(ShortStep * StepUnit), 0, ShortStep * StepUnit}

InitSigned ==
    /\ \E direction \in {1, -1} :
          Holds([NewSession EXCEPT
                    !.ufo = << NewUFO(direction) >>,
                    !.playerBullets =
                        << PlayerShoot(NewPlayer, PLAYER_SHOOT_COOLDOWN).bullets[1] >>,
                    !.enemyBullets =
                        << EnemyShoot(NewInvaderGrid.enemies[EnemyCount]) >>])
    /\ lastFrameTime = 0
    /\ target = ES5
    /\ running = FALSE
    /\ plan = [script |-> FREE, left |-> 0]
    /\ frames = 0
    /\ ev = NoEvent

\* player.update(deltaTime, moveLeft, moveRight)
CallSignedPlayerUpdate ==
    /\ frames < MaxCalls
    /\ \E dt \in SignedDts, moveLeft \in BOOLEAN, moveRight \in BOOLEAN :
          /\ player' = PlayerUpdate(player, dt, moveLeft, moveRight)
          /\ ev' = [kind |-> UPDATE_CALL, before |-> player, dt |-> dt,
                    left |-> moveLeft, right |-> moveRight]
    /\ frames' = frames + 1
    /\ UNCHANGED << gameState, score, wave, invaderGrid, playerBullets,
                    enemyBullets, ufo, playerRespawnTime, isPlayerRespawning,
                    lastUfoSpawnTime, lastFrameTime, target, running, plan >>

\* bullet.update(deltaTime) on the player's projectile or on the enemy's
CallBulletUpdate ==
    /\ frames < MaxCalls
    /\ \E dt \in SignedDts :
          \/ /\ playerBullets' = << BulletUpdate(playerBullets[1], dt) >>
             /\ ev' = [kind |-> BULLET_UPDATE_CALL,
                       before |-> playerBullets[1], dt |-> dt,
                       left |-> FALSE, right |-> FALSE]
             /\ UNCHANGED enemyBullets
          \/ /\ enemyBullets' = << BulletUpdate(enemyBullets[1], dt) >>
             /\ ev' = [kind |-> BULLET_UPDATE_CALL,
                       before |-> enemyBullets[1], dt |-> dt,
                       left |-> FALSE, right |-> FALSE]
             /\ UNCHANGED playerBullets
    /\ frames' = frames + 1
    /\ UNCHANGED << gameState, score, wave, player, invaderGrid, ufo,
                    playerRespawnTime, isPlayerRespawning, lastUfoSpawnTime,
                    lastFrameTime, target, running, plan >>

\* ufo.update(deltaTime)
CallSignedUFOUpdate ==
    /\ frames < MaxCalls
    /\ \E dt \in SignedDts :
          /\ ufo' = << UFOUpdate(ufo[1], dt) >>
          /\ ev' = [kind |-> UFO_UPDATE_CALL, before |-> ufo[1], dt |-> dt,
                    left |-> FALSE, right |-> FALSE]
    /\ frames' = frames + 1
    /\ UNCHANGED << gameState, score, wave, player, invaderGrid,
                    playerBullets, enemyBullets, playerRespawnTime,
                    isPlayerRespawning, lastUfoSpawnTime, lastFrameTime,
                    target, running, plan >>

NextSigned ==
    CallSignedPlayerUpdate \/ CallBulletUpdate \/ CallSignedUFOUpdate

SpecSigned == InitSigned /\ [][NextSigned]_vars

\* C22: an update called with a negative gap moves nothing backwards: the
\* player does not move against the one direction pressed, a projectile
\* does not move against its speed, the craft does not move against its
\* direction
C22_NoReversedMotion ==
    [][ ev'.dt < 0 =>
          /\ ev'.kind = UPDATE_CALL =>
                /\ (ev'.right /\ ~ev'.left) => player'.x >= player.x
                /\ (ev'.left /\ ~ev'.right) => player'.x <= player.x
          /\ ev'.kind = BULLET_UPDATE_CALL =>
                /\ playerBullets'[1].y <= playerBullets[1].y
                /\ enemyBullets'[1].y >= enemyBullets[1].y
          /\ ev'.kind = UFO_UPDATE_CALL =>
                (ufo'[1].x - ufo[1].x) * ufo[1].direction >= 0
      ]_vars

\* InvaderGrid called directly with frame gaps of several lengths, kills
\* and resets in between.  The swarm starts with its upper rows alive in
\* all columns or in the middle column only; frames counts the calls.
MaxSwarmCalls == 4

SwarmGaps == {StepUnit, ShortStep * StepUnit, LongStep * StepUnit,
              2 * LongStep * StepUnit}

SwarmColumns == {0..(ENEMY_COLS - 1), {ENEMY_COLS \div 2}}

\* the grid g with only the enemies of the rows below rows and of the
\* columns cols alive
Living(g, rows, cols) ==
    [g EXCEPT !.enemies =
        [i \in 1..EnemyCount |->
            IF @[i].row < rows /\ @[i].col \in cols
            THEN @[i] ELSE EnemyDestroy(@[i])]]

InitSwarm ==
    /\ \E rows \in 1..ENEMY_ROWS, cols \in SwarmColumns :
          Holds([NewSession EXCEPT
                    !.invaderGrid = Living(NewInvaderGrid, rows, cols)])
    /\ lastFrameTime = 0
    /\ target = ES5
    /\ running = FALSE
    /\ plan = [script |-> FREE, left |-> 0]
    /\ frames = 0
    /\ ev = NoEvent

\* invaderGrid.update(deltaTime, currentTime), gap after the last update
CallSwarmUpdate ==
    /\ frames < MaxSwarmCalls
    /\ \E gap \in SwarmGaps :
          \E rnd \in ShooterPicks(invaderGrid, lastFrameTime + gap) :
              \E u \in {GridUpdate(invaderGrid, lastFrameTime + gap, rnd)} :
                  /\ invaderGrid' = u.grid
                  /\ ev' = [kind |-> GRID_UPDATE_CALL, before |-> invaderGrid,
                            time |-> lastFrameTime + gap, result |-> u.result]
                  /\ lastFrameTime' = lastFrameTime + gap
    /\ frames' = frames + 1
    /\ UNCHANGED << gameState, score, wave, player, playerBullets,
                    enemyBullets, ufo, playerRespawnTime, isPlayerRespawning,
                    lastUfoSpawnTime, target, running, plan >>

\* a projectile inside the box of the enemy e
ShotInto(e) ==
    Bullet(e.x + ENEMY_WIDTH \div 2, e.y + ENEMY_HEIGHT \div 2 - BULLET_HEIGHT \div 2,
           -BULLET_SPEED, TRUE)

\* invaderGrid.checkBulletCollision(bullet) with a projectile inside the
\* first or the last living enemy of the array
CallSwarmKill ==
    /\ frames < MaxSwarmCalls
    /\ AliveIdx(invaderGrid) # {}
    /\ \E i \in {SetMin(AliveIdx(invaderGrid)), SetMax(AliveIdx(invaderGrid))} :
          \E r \in {CheckBulletCollision(invaderGrid,
                                         ShotInto(invaderGrid.enemies[i]))} :
              /\ invaderGrid' = r.grid
              /\ ev' = [kind |-> PROBE_CALL, before |-> invaderGrid,
                        time |-> lastFrameTime,
                        result |-> [bullets |-> << >>, stageChanged |-> FALSE]]
    /\ frames' = frames + 1
    /\ UNCHANGED << gameState, score, wave, player, playerBullets,
                    enemyBullets, ufo, lastFrameTime, playerRespawnTime,
                    isPlayerRespawning, lastUfoSpawnTime, target, running,
                    plan >>

\* invaderGrid.reset()
CallSwarmReset ==
    /\ frames < MaxSwarmCalls
    /\ ev.kind \in {GRID_UPDATE_CALL, PROBE_CALL}
    /\ invaderGrid' = GridReset(invaderGrid)
    /\ ev' = [kind |-> GRID_RESET_CALL, before |-> invaderGrid,
              time |-> lastFrameTime,
              result |-> [bullets |-> << >>, stageChanged |-> FALSE]]
    /\ frames' = frames + 1
    /\ UNCHANGED << gameState, score, wave, player, playerBullets,
                    enemyBullets, ufo, lastFrameTime, playerRespawnTime,
                    isPlayerRespawning, lastUfoSpawnTime, target, running,
                    plan >>

NextSwarm == CallSwarmUpdate \/ CallSwarmKill \/ CallSwarmReset

SpecSwarm == InitSwarm /\ [][NextSwarm]_vars

\* the multiplier, in tenths, update uses on the grid g
UsedMultiplier10(g) ==
    IF AliveIdx(g) = {} THEN 10 ELSE ClaimedMultiplier10(DescentDistance(g))

\* a move interval of g has elapsed at the time now
MoveIntervalElapsed(g, now) ==
    (now - g.lastMoveTime) * ENEMY_MOVE_SPEED * UsedMultiplier10(g)
        >= 10 * MS_PER_SECOND

\* C23: a call of update at the time now makes a step exactly when
\* now - lastMoveTime >= 1000 / (ENEMY_MOVE_SPEED x multiplier), whatever the
\* gap since the last call; it is then one drop step or one lateral step,
\* however many intervals have elapsed, and lastMoveTime becomes now;
\* otherwise the enemies, the direction and lastMoveTime stay as they were
C23_OneTimedStep ==
    [][ ev'.kind = GRID_UPDATE_CALL =>
          IF MoveIntervalElapsed(invaderGrid, ev'.time)
          THEN /\ invaderGrid'.lastMoveTime = ev'.time
               /\ IF AliveIdx(invaderGrid) = {}
                  THEN /\ invaderGrid'.enemies = invaderGrid.enemies
                       /\ invaderGrid'.moveDirection = invaderGrid.moveDirection
                  ELSE \/ DropStep(invaderGrid, invaderGrid')
                       \/ LateralStep(invaderGrid, invaderGrid')
          ELSE /\ invaderGrid'.enemies = invaderGrid.enemies
               /\ invaderGrid'.moveDirection = invaderGrid.moveDirection
               /\ invaderGrid'.lastMoveTime = invaderGrid.lastMoveTime
      ]_vars

\* C23 witness: a call made a second after the last step, twenty move
\* intervals or more, has moved the living enemies by one lateral step
C23_Witness ==
    /\ ev.kind = GRID_UPDATE_CALL
    /\ ev.before.lastMoveTime > 0
    /\ ev.time - ev.before.lastMoveTime >= LongStep * StepUnit
    /\ AliveIdx(ev.before) # {}
    /\ LateralStep(ev.before, invaderGrid)
    /\ invaderGrid.lastMoveTime = ev.time

\* the living enemies of g from which the projectile b can have been fired
ShootersOf(g, b) ==
    {i \in AliveIdx(g) :
        /\ b.x = g.enemies[i].x + ENEMY_WIDTH \div 2 - BULLET_WIDTH \div 2
        /\ b.y = g.enemies[i].y + ENEMY_HEIGHT}

\* no living enemy of g in the column of enemy i is lower than it
IsFrontLine(g, i) ==
    \A j \in AliveIdx(g) :
        g.enemies[j].col = g.enemies[i].col => g.enemies[j].y <= g.enemies[i].y

\* C24: a call of update returns at most one projectile; it is an enemy
\* projectile moving down, fired from under a living enemy that no living
\* enemy of its column is below
C24_FrontLineFire ==
    [][ ev'.kind = GRID_UPDATE_CALL =>
          /\ Len(ev'.result.bullets) <= 1
          /\ \A k \in 1..Len(ev'.result.bullets) :
                /\ ~ev'.result.bullets[k].isPlayerBullet
                /\ ev'.result.bullets[k].speed > 0
                /\ ShootersOf(invaderGrid', ev'.result.bullets[k]) # {}
                /\ \A i \in ShootersOf(invaderGrid', ev'.result.bullets[k]) :
                      IsFrontLine(invaderGrid', i)
      ]_vars

\* C24 witness: a projectile was fired by an enemy that has a living enemy
\* above it and a dead one below it in its column, in a swarm with a column
\* that has no living enemy
C24_Witness ==
    /\ ev.kind = GRID_UPDATE_CALL
    /\ Len(ev.result.bullets) = 1
    /\ \E i \in ShootersOf(invaderGrid, ev.result.bullets[1]) :
          /\ \E j \in AliveIdx(invaderGrid) :
                /\ invaderGrid.enemies[j].col = invaderGrid.enemies[i].col
                /\ invaderGrid.enemies[j].row < invaderGrid.enemies[i].row
          /\ \E j \in 1..EnemyCount :
                /\ ~invaderGrid.enemies[j].isAlive
                /\ invaderGrid.enemies[j].col = invaderGrid.enemies[i].col
                /\ invaderGrid.enemies[j].row > invaderGrid.enemies[i].row
    /\ \E col \in 0..(ENEMY_COLS - 1) :
          \A j \in AliveIdx(invaderGrid) : invaderGrid.enemies[j].col # col

\* a fire interval of g has elapsed at the time now
FireIntervalElapsed(g, now) ==
    (now - g.lastShootTime) * UsedMultiplier10(g) >= 10 * ENEMY_SHOOT_INTERVAL

\* C25: a call of update at the time now attempts fire exactly when
\* now - lastShootTime >= ENEMY_SHOOT_INTERVAL / multiplier; it then sets
\* lastShootTime to now and returns one projectile, or none when no enemy
\* lives; otherwise it returns none and leaves lastShootTime as it was
C25_FireStamp ==
    [][ ev'.kind = GRID_UPDATE_CALL =>
          IF FireIntervalElapsed(invaderGrid, ev'.time)
          THEN /\ invaderGrid'.lastShootTime = ev'.time
               /\ Len(ev'.result.bullets)
                      = IF AliveIdx(invaderGrid) = {} THEN 0 ELSE 1
          ELSE /\ invaderGrid'.lastShootTime = invaderGrid.lastShootTime
               /\ ev'.result.bullets = << >>
      ]_vars

\* C25 witness: a call on a swarm with no living enemy, made when the fire
\* interval had elapsed, returned no projectile and stamped the fire time
C25_Witness ==
    /\ ev.kind = GRID_UPDATE_CALL
    /\ AliveIdx(ev.before) = {}
    /\ FireIntervalElapsed(ev.before, ev.time)
    /\ ev.result.bullets = << >>
    /\ invaderGrid.lastShootTime = ev.time
    /\ ~FireIntervalElapsed(invaderGrid, ev.time + LongStep * StepUnit)

\* the stage update computes on the grid g
UsedStage(g) ==
    IF AliveIdx(g) = {} THEN 1 ELSE ClaimedStage(DescentDistance(g))

\* the fields of a grid other than the remembered stage
Unremembered(g) == [g EXCEPT !.previousSpeedStage = 1]

\* C26: a call of update reports stageChanged exactly when the stage of the
\* grid it is called on differs from the remembered one, and remembers
\* that stage; and whatever stage had been remembered, the call leaves the
\* enemies, the direction and the move and fire times the same
C26_StageSignal ==
    [][ ev'.kind = GRID_UPDATE_CALL =>
          /\ ev'.result.stageChanged
                <=> (UsedStage(invaderGrid) # invaderGrid.previousSpeedStage)
          /\ invaderGrid'.previousSpeedStage = UsedStage(invaderGrid)
          /\ \A remembered \in 1..Len(SpeedStages) :
                Unremembered(GridUpdate(
                    [invaderGrid EXCEPT !.previousSpeedStage = remembered],
                    ev'.time, 0).grid) = Unremembered(invaderGrid')
      ]_vars

\* C26 witness: a call on a swarm that has descended to stage 3, whose stage
\* an earlier call had reported and remembered, reports no change
C26_Witness ==
    /\ ev.kind = GRID_UPDATE_CALL
    /\ ev.before.previousSpeedStage = 3
    /\ UsedStage(ev.before) = 3
    /\ ~ev.result.stageChanged
    /\ invaderGrid.previousSpeedStage = 3

\* C27: on a swarm as the constructor or reset() leaves it, the descent
\* distance is 0, the stage 1 and the speed the base speed, and a call of
\* update reports no stage change, steps only from 50 ms on and fires only
\* from 2000 ms on
C27_FreshStageOne ==
    [][ (invaderGrid = NewInvaderGrid /\ ev'.kind = GRID_UPDATE_CALL) =>
          /\ DescentDistance(invaderGrid) = 0
          /\ GetCurrentSpeedStage(invaderGrid) = 1
          /\ GetCurrentMoveSpeed(invaderGrid) = ENEMY_MOVE_SPEED
          /\ ~ev'.result.stageChanged
          /\ invaderGrid'.lastMoveTime = ev'.time
                <=> ev'.time * ENEMY_MOVE_SPEED >= MS_PER_SECOND
          /\ invaderGrid'.lastShootTime = ev'.time
                <=> ev'.time >= ENEMY_SHOOT_INTERVAL
      ]_vars

\* the step is the update call that restarts from the game-over screen
Restart == ev'.kind = GAME_OVER /\ ev'.confirm

\* the points of the enemies and of the craft shot in the collision pass of
\* the frame the step runs
PointsOfFrame ==
    IF ev'.outcome # COMPLETED THEN 0
    ELSE SCORE_PER_ENEMY
             * Cardinality({i \in AliveIdx(ev'.pre[1].invaderGrid) :
                               ~ev'.mid[1].invaderGrid.enemies[i].isAlive})
         + (IF /\ ev'.pre[1].ufo # << >> /\ ev'.pre[1].ufo[1].isActive
               /\ ev'.mid[1].ufo # << >> /\ ~ev'.mid[1].ufo[1].isActive
            THEN UFO_SCORE ELSE 0)

\* C28: the restart from the game-over screen sets the score to 0 and the
\* wave to 1; every other step leaves the score where it was or raises it
\* by 10 per enemy and 100 per craft shot in the frame, and leaves the wave
\* where it was or raises it by 1; the score is always a multiple of 10 from
\* 0 up and the wave at least 1; and the frame that enters GameOver keeps
\* the wave and the score its collision pass arrived at
C28_ScoreAndWave ==
    [][ /\ score' >= 0 /\ score' % SCORE_PER_ENEMY = 0 /\ wave' >= 1
        /\ IF Restart
           THEN score' = 0 /\ wave' = 1
           ELSE /\ score' = score + PointsOfFrame
                /\ wave' \in {wave, wave + 1}
                /\ ev'.kind # PLAYING => wave' = wave
                /\ gameState' = GAME_OVER => wave' = wave
      ]_vars

\* C28 witness: a frame in which an enemy was shot ended the session, and
\* the game-over screen shows the score with that enemy's points
C28_Witness ==
    /\ Completed /\ gameState = GAME_OVER
    /\ Killed # {}
    /\ score = Pre.score + SCORE_PER_ENEMY * Cardinality(Killed)
    /\ score > 0 /\ wave = Pre.wave

\* C29: whenever the phase is Playing the player has a life left and an
\* enemy lives; a frame whose end-condition check finds no life ends in
\* GameOver, and one that finds a life and no living enemy ends in the full
\* formation of the next wave, whether or not the player was hit in it
C29_PlayingHasLifeAndEnemy ==
    /\ gameState = PLAYING =>
          player.lives >= 1 /\ GetAliveCount(invaderGrid) >= 1
    /\ (Completed /\ Mid.player.lives <= 0) => gameState = GAME_OVER
    /\ (Completed /\ Mid.player.lives > 0 /\ GetAliveCount(Mid.invaderGrid) = 0) =>
          /\ SwarmAtStart(invaderGrid)
          /\ GetAliveCount(invaderGrid) = ENEMY_ROWS * ENEMY_COLS
          /\ gameState = Mid.gameState

\* C29 witness: in one frame the last enemy was shot and an enemy projectile
\* hit the player, who has a life left; the frame ended in Playing with the
\* full formation of the next wave
C29_Witness ==
    /\ Completed /\ gameState = PLAYING
    /\ GetAliveCount(Pre.invaderGrid) = 1
    /\ GetAliveCount(Mid.invaderGrid) = 0
    /\ Mid.player.lives = Pre.player.lives - 1
    /\ player.lives >= 1 /\ isPlayerRespawning
    /\ GetAliveCount(invaderGrid) = ENEMY_ROWS * ENEMY_COLS

\* InvaderGrid marched from edge to edge with enemies shot out of it on the
\* way.  The swarm starts full, or as its first row in all columns, in the
\* first column or in the last; update is called once per short frame up to
\* the clock bound; enemies are shot before the first call and whenever the
\* swarm stands at the edge it moves towards, which is where a kill changes
\* the next step; frames counts the kills.
MaxEdgeClock == 500     \* in units of StepUnit
MaxEdgeKills == 3

EdgeSwarms ==
    { [rows |-> ENEMY_ROWS, cols |-> 0..(ENEMY_COLS - 1)],
      [rows |-> 1, cols |-> 0..(ENEMY_COLS - 1)],
      [rows |-> 1, cols |-> {0}],
      [rows |-> 1, cols |-> {ENEMY_COLS - 1}] }

InitEdges ==
    /\ \E swarm \in EdgeSwarms :
          Holds([NewSession EXCEPT
                    !.invaderGrid =
                        Living(NewInvaderGrid, swarm.rows, swarm.cols)])
    /\ lastFrameTime = 0
    /\ target = ES5
    /\ running = FALSE
    /\ plan = [script |-> FREE, left |-> 0]
    /\ frames = 0
    /\ ev = NoEvent

\* invaderGrid.update(deltaTime, currentTime), a short frame after the last
CallEdgeUpdate ==
    /\ lastFrameTime + ShortStep * StepUnit <= MaxEdgeClock * StepUnit
    /\ \E rnd \in ShooterPicks(invaderGrid, lastFrameTime + ShortStep * StepUnit) :
          \E u \in {GridUpdate(invaderGrid,
                               lastFrameTime + ShortStep * StepUnit, rnd)} :
              /\ invaderGrid' = u.grid
              /\ ev' = [kind |-> GRID_UPDATE_CALL, before |-> invaderGrid,
                        time |-> lastFrameTime + ShortStep * StepUnit,
                        result |-> u.result]
    /\ lastFrameTime' = lastFrameTime + ShortStep * StepUnit
    /\ UNCHANGED << gameState, score, wave, player, playerBullets,
                    enemyBullets, ufo, playerRespawnTime, isPlayerRespawning,
                    lastUfoSpawnTime, target, running, plan, frames >>

\* invaderGrid.checkBulletCollision(bullet) with a projectile inside the
\* first or the last living enemy of the array
CallEdgeKill ==
    /\ frames < MaxEdgeKills
    /\ AliveIdx(invaderGrid) # {}
    /\ lastFrameTime = 0 \/ AtEdge(invaderGrid)
    /\ \E i \in {SetMin(AliveIdx(invaderGrid)), SetMax(AliveIdx(invaderGrid))} :
          \E r \in {CheckBulletCollision(invaderGrid,
                                         ShotInto(invaderGrid.enemies[i]))} :
              /\ invaderGrid' = r.grid
              /\ ev' = [kind |-> PROBE_CALL, before |-> invaderGrid,
                        time |-> lastFrameTime,
                        result |-> [bullets |-> << >>, stageChanged |-> FALSE]]
    /\ frames' = frames + 1
    /\ UNCHANGED << gameState, score, wave, player, playerBullets,
                    enemyBullets, ufo, lastFrameTime, playerRespawnTime,
                    isPlayerRespawning, lastUfoSpawnTime, target, running,
                    plan >>

NextEdges == CallEdgeUpdate \/ CallEdgeKill

SpecEdges == InitEdges /\ [][NextEdges]_vars

\* C30: every living enemy is horizontally inside the playfield
C30_SwarmInside ==
    \A i \in AliveIdx(invaderGrid) :
        /\ 0 <= invaderGrid.enemies[i].x
        /\ invaderGrid.enemies[i].x + ENEMY_WIDTH <= CANVAS_WIDTH

\* C30 witness: after the first column was shot out on the way, the swarm
\* has come nearer to the left side than its first column would have let it
C30_Witness ==
    /\ ev.kind = GRID_UPDATE_CALL
    /\ frames >= 1
    /\ AliveIdx(invaderGrid) # {}
    /\ \A i \in AliveIdx(invaderGrid) : invaderGrid.enemies[i].col > 0
    /\ LeftmostX(invaderGrid) < EDGE_MARGIN - LATERAL_STEP + 8
    /\ invaderGrid.moveDirection = -1

\* getCurrentMoveSpeed() of a swarm whose descent distance is in stage k
SpeedOfStage(k) == (ENEMY_MOVE_SPEED * SpeedStages[k].multiplier10) \div 10

====
